---- MODULE Spec2Model ----
(***************************************************************************)
(* Verification model of the metric-duck "build-with-metricduck" labs.     *)
(*                                                                         *)
(* The labs are linear pipelines over pure functions.  Each function under *)
(* study is translated to an operator and exercised by a small state       *)
(* machine of its own:                                                     *)
(*   SpecRank    - compute_percentile_ranks   (labs/04 screener.py)        *)
(*   SpecScore   - score_stocks, step by step (labs/04 screener.py)        *)
(*   SpecExtract - the three extract_metric copies (labs/02, 03, 04)       *)
(*                                                                         *)
(* Conventions                                                             *)
(*   - Python None is the empty tuple <<>>, a present value v is <<v>>.    *)
(*   - A Python dict is a function; dict.get(k, d) is Get(f, k, d).        *)
(*   - Tickers are numbered by their arrival (dict insertion) order.       *)
(*   - Percentiles and averages are exact rationals stored as integers in  *)
(*     units of 1/Scale; a reported score (round(x, 1)) is an integer      *)
(*     number of tenths.                                                   *)
(***************************************************************************)
EXTENDS Integers, Sequences, FiniteSets, TLC

(***************************************************************************)
(* Bounds of the model.                                                    *)
(***************************************************************************)
MaxEntities == 4      \* SpecRank: entities in a value map
MaxVal      == 3      \* SpecRank: metric values are 1..MaxVal
MaxTickers  == 3      \* SpecScore: companies in an arbitrary-shape payload
WideTickers == 6      \* SpecScore: companies in a wide payload
MaxLen      == 3      \* SpecExtract: entries in a metric's values list
MaxSlope    == 10     \* SpecDiagnosis: trend slopes are -MaxSlope..MaxSlope thousandths
MaxWhole    == 2      \* SpecFormat: whole parts 0..MaxWhole, besides the chosen ones
MaxWatch    == 2      \* SpecRun: tickers in a watchlist
MaxExtra    == 1      \* SpecRun: tickers of validate.py beyond a guest batch
MaxClock    == 2      \* SpecDelta: instants 0..MaxClock
MaxRuns     == 2      \* SpecDelta: runs of the sync script

VARIABLES
    \* compute_percentile_ranks
    values,           \* argument: value (or None) per entity, in dict order
    direction,        \* argument: "higher" | "lower"
    ranks,            \* return value: entity -> percentile (scaled)
    rk_pc,            \* "call" before the call, "done" after
    \* score_stocks
    api_data,         \* argument: company payload per ticker, arrival order
    quality_ranks,    \* local: metric_id -> rank map
    value_ranks,      \* local: metric_id -> rank map
    results,          \* local / return value: list of score records
    cur,              \* local: the scoring loop's computation for the last ticker
    sc_pc,            \* position in score_stocks
    sc_i,             \* index of the next loop iteration
    \* extract_metric
    ex_data,          \* argument: the "data" dict (ticker -> company)
    ex_ticker,        \* argument
    ex_metric,        \* argument
    ex_out,           \* results of the three copies
    ex_pc,
    \* _compute_diagnosis
    dg_data,          \* argument: the API response
    dg_ticker,        \* argument
    dg_out,           \* return value: [signal, text]
    dg_pc,
    \* the display formatters
    fm_value,         \* argument: the value to display
    fm_metric,        \* argument: the metric_id given to format_value, fmt_val
    fm_out,           \* the display string of each formatter
    fm_pc,            \* the formatters not yet called
    \* a run of a script
    script,           \* which script runs
    pc,               \* its position
    env,              \* environment variables, argv, module configuration
    locals,           \* its local variables
    calls,            \* the calls made to the outside, in order
    printed,          \* the messages printed, in order
    exit_status,      \* None while running, then the process's exit status
    db,               \* the datastore's tables
    \* runs of the sync script over time
    dl_clock,         \* the present instant
    dl_upstream,      \* the API's data: instant of each company's last update
    dl_db,            \* the datastore: companies (instant of the data held), sync_log
    dl_locals,        \* local variables of the run
    dl_history,       \* the requests sent and the syncs logged, over all runs
    dl_runs,          \* runs started
    dl_pc             \* position in the run, "idle" between runs

rankVars    == <<values, direction, ranks, rk_pc>>
scoreVars   == <<api_data, quality_ranks, value_ranks, results, cur, sc_pc, sc_i>>
extractVars == <<ex_data, ex_ticker, ex_metric, ex_out, ex_pc>>
diagVars    == <<dg_data, dg_ticker, dg_out, dg_pc>>
formatVars  == <<fm_value, fm_metric, fm_out, fm_pc>>
runVars     == <<script, pc, env, locals, calls, printed, exit_status, db>>
deltaVars   == <<dl_clock, dl_upstream, dl_db, dl_locals, dl_history, dl_runs, dl_pc>>
vars        == <<rankVars, scoreVars, extractVars, diagVars, formatVars, runVars, deltaVars>>

\* What a component's actions leave alone: every other component.
notRank    == <<scoreVars, extractVars, diagVars, formatVars, runVars, deltaVars>>
notScore   == <<rankVars, extractVars, diagVars, formatVars, runVars, deltaVars>>
notExtract == <<rankVars, scoreVars, diagVars, formatVars, runVars, deltaVars>>
notDiag    == <<rankVars, scoreVars, extractVars, formatVars, runVars, deltaVars>>
notFormat  == <<rankVars, scoreVars, extractVars, diagVars, runVars, deltaVars>>
notRun     == <<rankVars, scoreVars, extractVars, diagVars, formatVars, deltaVars>>
notDelta   == <<rankVars, scoreVars, extractVars, diagVars, formatVars, runVars>>

(***************************************************************************)
(* Python values.                                                          *)
(***************************************************************************)
None == <<>>

Some(v) == <<v>>

EmptyDict == <<>>

Get(f, k, default) == IF k \in DOMAIN f THEN f[k] ELSE default

Max(a, b) == IF a >= b THEN a ELSE b

RECURSIVE Gcd(_, _)
Gcd(a, b) == IF b = 0 THEN a ELSE Gcd(b, a % b)

RECURSIVE LcmUpTo(_)
LcmUpTo(n) == IF n <= 1 THEN 1 ELSE (LcmUpTo(n - 1) * n) \div Gcd(LcmUpTo(n - 1), n)

\* Every percentile i/(n-1)*100, every mean of up to three of them and every
\* 0.6/0.4 blend of two means is an integer number of 1/Scale.
GUEST_MAX_TICKERS == 10

Scale ==
    6 * LcmUpTo(Max(Max(Max(MaxEntities, MaxTickers), WideTickers) + 1, GUEST_MAX_TICKERS))

RECURSIVE SumSeq(_)
SumSeq(s) == IF s = <<>> THEN 0 ELSE Head(s) + SumSeq(Tail(s))

(***************************************************************************)
(* sorted(xs, key=..., reverse=...): Python's sort is stable, and with     *)
(* reverse=True it still keeps equal keys in their original order.         *)
(***************************************************************************)
RECURSIVE InsertSorted(_, _, _, _)
InsertSorted(out, x, key, reverse) ==
    IF out = <<>> THEN <<x>>
    ELSE LET h == Head(out)
             xFirst == IF reverse THEN key[x] > key[h] ELSE key[x] < key[h]
         IN  IF xFirst THEN <<x>> \o out
             ELSE <<h>> \o InsertSorted(Tail(out), x, key, reverse)

RECURSIVE SortedInto(_, _, _, _)
SortedInto(out, xs, key, reverse) ==
    IF xs = <<>> THEN out
    ELSE SortedInto(InsertSorted(out, Head(xs), key, reverse), Tail(xs), key, reverse)

sorted(xs, key, reverse) == SortedInto(<<>>, xs, key, reverse)

(***************************************************************************)
(* labs/04-stock-screener/screener.py: compute_percentile_ranks            *)
(***************************************************************************)
\* valid = {t: v for t, v in values.items() if v is not None}, as the list of
\* its keys in dict order.
\* mutant: absent values are kept (and sort as 0)
ValidKeys_KeepAbsent(vals) == [t \in 1..Len(vals) |-> t]

ValidKeys(vals) ==
    SelectSeq([t \in 1..Len(vals) |-> t], LAMBDA t : vals[t] # None)

\* mutant: "lower" sorts ascending and reverses the list, which turns the order
\* of equal values around
RECURSIVE ReverseSeq(_)
ReverseSeq(xs) == IF xs = <<>> THEN <<>> ELSE ReverseSeq(Tail(xs)) \o <<Head(xs)>>

SortedTickers_ReverseAfter(vals, dir) ==
    LET valid == ValidKeys(vals)
        key   == [t \in 1..Len(vals) |-> IF vals[t] # None THEN vals[t][1] ELSE 0]
        asc   == sorted(valid, key, FALSE)
    IN  IF dir = "lower" THEN ReverseSeq(asc) ELSE asc

\* mutant: the direction is not looked at
SortedTickers_Ascending(vals, dir) ==
    LET valid == ValidKeys(vals)
        key   == [t \in 1..Len(vals) |-> IF vals[t] # None THEN vals[t][1] ELSE 0]
    IN  sorted(valid, key, FALSE)

SortedTickers(vals, dir) ==
    LET valid   == ValidKeys(vals)
        key     == [t \in 1..Len(vals) |-> IF vals[t] # None THEN vals[t][1] ELSE 0]
        reverse == (dir = "lower")
    IN  sorted(valid, key, reverse)

\* mutant: position i of n gets i/n*100 with i counted from 1
compute_percentile_ranks_OverN(vals, dir) ==
    LET sorted_tickers == SortedTickers(vals, dir)
        n == Len(sorted_tickers)
        pos(t) == CHOOSE i \in 1..n : sorted_tickers[i] = t
    IN  IF n = 0 THEN EmptyDict
        ELSE [t \in {sorted_tickers[i] : i \in 1..n} |->
                 IF n > 1 THEN (pos(t) * 100 * Scale) \div n
                 ELSE 50 * Scale]

compute_percentile_ranks(vals, dir) ==
    LET sorted_tickers == SortedTickers(vals, dir)
        n == Len(sorted_tickers)
        pos(t) == CHOOSE i \in 1..n : sorted_tickers[i] = t
    IN  IF n = 0 THEN EmptyDict
        ELSE [t \in {sorted_tickers[i] : i \in 1..n} |->
                 IF n > 1 THEN ((pos(t) - 1) * 100 * Scale) \div (n - 1)
                 ELSE 50 * Scale]

(***************************************************************************)
(* SpecRank: one call of compute_percentile_ranks on an arbitrary map.     *)
(***************************************************************************)
OptVals == {None} \cup {Some(v) : v \in 1..MaxVal}

ValueMaps == UNION {[1..n -> OptVals] : n \in 0..MaxEntities}

RankIdle ==
    /\ values = <<>> /\ direction = "higher" /\ ranks = EmptyDict /\ rk_pc = "idle"

RankCall ==
    /\ rk_pc = "call"
    /\ ranks' = compute_percentile_ranks(values, direction)
    /\ rk_pc' = "done"
    /\ UNCHANGED <<values, direction, notRank>>

(***************************************************************************)
(* labs/04-stock-screener/screener.py: configuration                       *)
(***************************************************************************)
\* (display_name, metric_id, direction)
QUALITY_METRICS ==
    << <<"ROIC", "roic", "higher">>,
       <<"FCF Margin", "fcf_margin", "higher">> >>

VALUE_METRICS ==
    << <<"PE Ratio", "pe_ratio", "lower">>,
       <<"FCF Yield", "fcf_yield", "higher">>,
       <<"EV/EBITDA", "ev_ebitda", "lower">> >>

\* 0.6 and 0.4, in tenths
QUALITY_WEIGHT == 6

VALUE_WEIGHT == 4

\* the signal threshold 70 of "q_avg >= 70", in percentile points
SIGNAL_MIN == 70

(***************************************************************************)
(* extract_metric: the three copies.  An entry of a values list is a       *)
(* record [dimension, value]; v.get("dimension") of an entry without the   *)
(* key is None, which is how such an entry is represented here.            *)
(***************************************************************************)
Entry(dim, val) == [dimension |-> dim, value |-> val]

\* for v in ...: if v.get("dimension") is None and v.get("value") is not None:
\*     return v["value"]
\* return None
RECURSIVE FirstBaseValue(_)
FirstBaseValue(vs) ==
    IF vs = <<>> THEN None
    ELSE IF Head(vs).dimension = None /\ Head(vs).value # None
         THEN Head(vs).value
         ELSE FirstBaseValue(Tail(vs))

RECURSIVE FirstBaseValueShowdown(_)
FirstBaseValueShowdown(vs) ==
    IF vs = <<>> THEN None
    ELSE IF Head(vs).dimension = None /\ Head(vs).value # None
         THEN Head(vs).value
         ELSE FirstBaseValueShowdown(Tail(vs))

\* mutant: the dimension tag is not looked at
RECURSIVE FirstBaseValuePulse_AnyDimension(_)
FirstBaseValuePulse_AnyDimension(vs) ==
    IF vs = <<>> THEN None
    ELSE IF Head(vs).value # None
         THEN Head(vs).value
         ELSE FirstBaseValuePulse_AnyDimension(Tail(vs))

RECURSIVE FirstBaseValuePulse(_)
FirstBaseValuePulse(vs) ==
    IF vs = <<>> THEN None
    ELSE IF Head(vs).dimension = None /\ Head(vs).value # None
         THEN Head(vs).value
         ELSE FirstBaseValuePulse(Tail(vs))

\* labs/04-stock-screener/screener.py: api_data is the merged "data" dict
extract_metric(data, ticker, metric_id) ==
    LET company == Get(data, ticker, EmptyDict)
        metric  == Get(Get(company, "metrics", EmptyDict), metric_id, EmptyDict)
    IN  FirstBaseValue(Get(metric, "values", <<>>))

\* labs/02-stock-showdown/showdown.py: api_data is the whole response
extract_metric_showdown(response, ticker, metric_id) ==
    LET company == Get(Get(response, "data", EmptyDict), ticker, EmptyDict)
        metric  == Get(Get(company, "metrics", EmptyDict), metric_id, EmptyDict)
        vals    == Get(metric, "values", <<>>)
    IN  FirstBaseValueShowdown(vals)

\* labs/03-stock-pulse/pulse.py: api_data is the whole response
extract_metric_pulse(response, ticker, metric_id) ==
    LET company == Get(Get(response, "data", EmptyDict), ticker, EmptyDict)
        metric  == Get(Get(company, "metrics", EmptyDict), metric_id, EmptyDict)
    IN  FirstBaseValuePulse(Get(metric, "values", <<>>))

get_company_name(data, ticker) ==
    Get(Get(data, ticker, EmptyDict), "company_name", ticker)

(***************************************************************************)
(* labs/04-stock-screener/screener.py: score_stocks                        *)
(***************************************************************************)
Tickers(data) == [i \in 1..Len(data) |-> i]

\* values = {t: extract_metric(api_data, t, metric_id) for t in tickers}
MetricValues(data, metric_id) ==
    [t \in 1..Len(data) |-> extract_metric(data, t, metric_id)]

\* dict[key] = val
Put(d, key, val) ==
    [k \in DOMAIN d \cup {key} |-> IF k = key THEN val ELSE d[k]]

\* [ranks[m_id][ticker] for _, m_id, _ in METRICS if ticker in ranks.get(m_id, {})]
\* mutant: a metric without a rank for the ticker counts as a score of 0
RECURSIVE CategoryScores_ZeroFill(_, _, _)
CategoryScores_ZeroFill(rankmaps, metrics, ticker) ==
    IF metrics = <<>> THEN <<>>
    ELSE LET m_id == Head(metrics)[2]
             rest == CategoryScores_ZeroFill(rankmaps, Tail(metrics), ticker)
         IN  IF ticker \in DOMAIN Get(rankmaps, m_id, EmptyDict)
             THEN <<rankmaps[m_id][ticker]>> \o rest
             ELSE IF \E m \in DOMAIN rankmaps : ticker \in DOMAIN rankmaps[m]
                  THEN <<0>> \o rest
                  ELSE rest

RECURSIVE CategoryScores(_, _, _)
CategoryScores(rankmaps, metrics, ticker) ==
    IF metrics = <<>> THEN <<>>
    ELSE LET m_id == Head(metrics)[2]
             rest == CategoryScores(rankmaps, Tail(metrics), ticker)
         IN  IF ticker \in DOMAIN Get(rankmaps, m_id, EmptyDict)
             THEN <<rankmaps[m_id][ticker]>> \o rest
             ELSE rest

\* sum(scores) / len(scores) if scores else 0
\* mutant: the sum is not divided
CategoryAvg_Sum(scores) ==
    IF scores # <<>> THEN SumSeq(scores) ELSE 0

CategoryAvg(scores) ==
    IF scores # <<>> THEN SumSeq(scores) \div Len(scores) ELSE 0

\* mutant: the two weights are exchanged
Composite_Swapped(q_scores, v_scores, q_avg, v_avg) ==
    IF q_scores = <<>> THEN v_avg
    ELSE IF v_scores = <<>> THEN q_avg
    ELSE (VALUE_WEIGHT * q_avg + QUALITY_WEIGHT * v_avg) \div 10

Composite(q_scores, v_scores, q_avg, v_avg) ==
    IF q_scores = <<>> THEN v_avg
    ELSE IF v_scores = <<>> THEN q_avg
    ELSE (QUALITY_WEIGHT * q_avg + VALUE_WEIGHT * v_avg) \div 10

\* mutant: the QUALITY test comes first, so BALANCED is never reached
Signal_QualityFirst(q_avg, v_avg) ==
    IF q_avg >= SIGNAL_MIN * Scale THEN "QUALITY"
    ELSE IF q_avg >= SIGNAL_MIN * Scale /\ v_avg >= SIGNAL_MIN * Scale THEN "BALANCED"
    ELSE IF v_avg >= SIGNAL_MIN * Scale THEN "VALUE"
    ELSE ""

Signal(q_avg, v_avg) ==
    IF q_avg >= SIGNAL_MIN * Scale /\ v_avg >= SIGNAL_MIN * Scale THEN "BALANCED"
    ELSE IF q_avg >= SIGNAL_MIN * Scale THEN "QUALITY"
    ELSE IF v_avg >= SIGNAL_MIN * Scale THEN "VALUE"
    ELSE ""

\* round(x, 1) of a non-negative x, as a number of tenths (ties to even)
Round1(x) ==
    LET q == (x * 10) \div Scale
        r == (x * 10) % Scale
    IN  IF 2 * r < Scale THEN q
        ELSE IF 2 * r > Scale THEN q + 1
        ELSE IF q % 2 = 0 THEN q ELSE q + 1

\* if not q_scores and not v_scores: continue
\* mutant: "or" for "and"
NoData_Either(q_scores, v_scores) == q_scores = <<>> \/ v_scores = <<>>

NoData(q_scores, v_scores) == q_scores = <<>> /\ v_scores = <<>>

\* the body of "for ticker in tickers" up to the record it appends
TickerScore(data, qranks, vranks, ticker) ==
    LET q_scores  == CategoryScores(qranks, QUALITY_METRICS, ticker)
        v_scores  == CategoryScores(vranks, VALUE_METRICS, ticker)
        q_avg     == CategoryAvg(q_scores)
        v_avg     == CategoryAvg(v_scores)
        composite == Composite(q_scores, v_scores, q_avg, v_avg)
    IN  [ticker    |-> ticker,
         q_scores  |-> q_scores,
         v_scores  |-> v_scores,
         q_avg     |-> q_avg,
         v_avg     |-> v_avg,
         composite |-> composite,
         signal    |-> Signal(q_avg, v_avg)]

ScoreRecord(data, c) ==
    [ticker       |-> c.ticker,
     company_name |-> get_company_name(data, c.ticker),
     metrics      |-> [m \in {QUALITY_METRICS[i][2] : i \in 1..Len(QUALITY_METRICS)}
                             \cup {VALUE_METRICS[i][2] : i \in 1..Len(VALUE_METRICS)}
                          |-> extract_metric(data, c.ticker, m)],
     scores       |-> [quality   |-> Round1(c.q_avg),
                       value     |-> Round1(c.v_avg),
                       composite |-> Round1(c.composite)],
     signal       |-> c.signal]

\* results.sort(key=lambda x: x["scores"]["composite"], reverse=True)
SortKey(recs) == [i \in 1..Len(recs) |-> recs[i].scores.composite]

\* mutant: reverse=True is forgotten
SortResults_Ascending(recs) ==
    LET order == sorted([i \in 1..Len(recs) |-> i], SortKey(recs), FALSE)
    IN  [i \in 1..Len(recs) |-> recs[order[i]]]

SortResults(recs) ==
    LET order == sorted([i \in 1..Len(recs) |-> i], SortKey(recs), TRUE)
    IN  [i \in 1..Len(recs) |-> recs[order[i]]]

NoCur == [ticker |-> 0, q_scores |-> <<>>, v_scores |-> <<>>, q_avg |-> 0,
          v_avg |-> 0, composite |-> 0, signal |-> ""]

ScoreIdle ==
    /\ api_data = <<>> /\ quality_ranks = EmptyDict /\ value_ranks = EmptyDict
    /\ results = <<>> /\ cur = NoCur /\ sc_pc = "idle" /\ sc_i = 0

\* one iteration of "for display_name, metric_id, direction in QUALITY_METRICS"
RankQualityMetric ==
    /\ sc_pc = "quality_ranks"
    /\ LET metric_id == QUALITY_METRICS[sc_i][2]
           dir       == QUALITY_METRICS[sc_i][3]
       IN  quality_ranks' = Put(quality_ranks, metric_id,
               compute_percentile_ranks(MetricValues(api_data, metric_id), dir))
    /\ IF sc_i < Len(QUALITY_METRICS)
       THEN sc_i' = sc_i + 1 /\ sc_pc' = "quality_ranks"
       ELSE sc_i' = 1 /\ sc_pc' = "value_ranks"
    /\ UNCHANGED <<api_data, value_ranks, results, cur, notScore>>

\* one iteration of "for display_name, metric_id, direction in VALUE_METRICS"
RankValueMetric ==
    /\ sc_pc = "value_ranks"
    /\ LET metric_id == VALUE_METRICS[sc_i][2]
           dir       == VALUE_METRICS[sc_i][3]
       IN  value_ranks' = Put(value_ranks, metric_id,
               compute_percentile_ranks(MetricValues(api_data, metric_id), dir))
    /\ IF sc_i < Len(VALUE_METRICS)
       THEN sc_i' = sc_i + 1 /\ sc_pc' = "value_ranks"
       ELSE sc_i' = 1 /\ sc_pc' = IF Len(api_data) = 0 THEN "sort" ELSE "score"
    /\ UNCHANGED <<api_data, quality_ranks, results, cur, notScore>>

AdvanceTicker ==
    IF sc_i < Len(api_data)
    THEN sc_i' = sc_i + 1 /\ sc_pc' = "score"
    ELSE sc_i' = sc_i /\ sc_pc' = "sort"

\* one iteration of "for ticker in tickers" that ends in "continue"
SkipTicker ==
    /\ sc_pc = "score"
    /\ LET c == TickerScore(api_data, quality_ranks, value_ranks, Tickers(api_data)[sc_i])
       IN  /\ NoData(c.q_scores, c.v_scores)
           /\ cur' = c
    /\ AdvanceTicker
    /\ UNCHANGED <<api_data, quality_ranks, value_ranks, results, notScore>>

\* one iteration of "for ticker in tickers" that appends a record
ScoreTicker ==
    /\ sc_pc = "score"
    /\ LET c == TickerScore(api_data, quality_ranks, value_ranks, Tickers(api_data)[sc_i])
       IN  /\ ~NoData(c.q_scores, c.v_scores)
           /\ cur' = c
           /\ results' = Append(results, ScoreRecord(api_data, c))
    /\ AdvanceTicker
    /\ UNCHANGED <<api_data, quality_ranks, value_ranks, notScore>>

\* results.sort(...); return results
SortAndReturn ==
    /\ sc_pc = "sort"
    /\ results' = SortResults(results)
    /\ sc_pc' = "done"
    /\ UNCHANGED <<api_data, quality_ranks, value_ranks, cur, sc_i, notScore>>

(***************************************************************************)
(* SpecExtract: the three copies of extract_metric, each called once, in   *)
(* any order, on the same "data" dict.                                     *)
(***************************************************************************)
Copies == {"showdown", "pulse", "screener"}

ExtractIdle ==
    /\ ex_data = EmptyDict /\ ex_ticker = 0 /\ ex_metric = ""
    /\ ex_out = [c \in Copies |-> None] /\ ex_pc = {"idle"}

ExtractShowdown ==
    /\ "showdown" \in ex_pc
    /\ ex_out' = [ex_out EXCEPT !["showdown"] =
                     extract_metric_showdown([data |-> ex_data], ex_ticker, ex_metric)]
    /\ ex_pc' = ex_pc \ {"showdown"}
    /\ UNCHANGED <<ex_data, ex_ticker, ex_metric, notExtract>>

ExtractPulse ==
    /\ "pulse" \in ex_pc
    /\ ex_out' = [ex_out EXCEPT !["pulse"] =
                     extract_metric_pulse([data |-> ex_data], ex_ticker, ex_metric)]
    /\ ex_pc' = ex_pc \ {"pulse"}
    /\ UNCHANGED <<ex_data, ex_ticker, ex_metric, notExtract>>

ExtractScreener ==
    /\ "screener" \in ex_pc
    /\ ex_out' = [ex_out EXCEPT !["screener"] =
                     extract_metric(ex_data, ex_ticker, ex_metric)]
    /\ ex_pc' = ex_pc \ {"screener"}
    /\ UNCHANGED <<ex_data, ex_ticker, ex_metric, notExtract>>

(***************************************************************************)
(* Inputs.                                                                 *)
(***************************************************************************)
\* SpecExtract: every values list of up to MaxLen entries, under one metric
\* of one company; the company, the metric or both may be missing.
Dimensions == {None, Some("Q.MED8")}

Entries == {Entry(d, v) : d \in Dimensions, v \in {None, Some(1), Some(2)}}

ValuesLists == UNION {[1..n -> Entries] : n \in 0..MaxLen}

ExtractInputs ==
    {EmptyDict, <<[metrics |-> EmptyDict]>>, <<EmptyDict>>,
     <<[metrics |-> [m \in {"roic"} |-> EmptyDict]]>>}
    \cup {<<[metrics |-> [m \in {"roic"} |-> [values |-> vs]]]>> : vs \in ValuesLists}

\* SpecScore: a company is written as the row of its five base values, in the
\* order of ALL_METRIC_IDS.
ALL_METRIC_IDS == <<"roic", "fcf_margin", "pe_ratio", "fcf_yield", "ev_ebitda">>

\* The payload shape of one cell of a row.  A present value comes second, after
\* an 8-quarter median that differs from it; an absent value is a missing
\* metric (odd columns) or a metric with a null base entry (even columns).
CellValues(cell) ==
    IF cell # None
    THEN <<Entry(Some("Q.MED8"), Some(3 - cell[1])), Entry(None, cell)>>
    ELSE <<Entry(None, None), Entry(Some("Q.MED8"), Some(1))>>

Company(row) ==
    LET present == {i \in 1..Len(row) : row[i] # None \/ i % 2 = 0}
    IN  [metrics |-> [m \in {ALL_METRIC_IDS[i] : i \in present} |->
                         LET col == CHOOSE i \in present : ALL_METRIC_IDS[i] = m
                         IN  [values |-> CellValues(row[col])]]]

Payload(rows) == [t \in 1..Len(rows) |-> Company(rows[t])]

\* few companies, any combination of missing categories
QualityParts ==
    {<<None, None>>, <<Some(1), None>>, <<Some(2), Some(1)>>}

ValueParts ==
    {<<None, None, None>>, <<None, Some(2), None>>, <<Some(1), Some(1), Some(2)>>}

SmallRows == {q \o v : q \in QualityParts, v \in ValueParts}

\* more companies, three shapes
WideRows ==
    {<<Some(1), Some(1), Some(2), None, Some(2)>>,
     <<Some(1), Some(1), Some(1), Some(2), Some(2)>>,
     <<None, Some(2), Some(2), Some(2), Some(2)>>}

\* a guest's screen of GUEST_MAX_TICKERS companies without quality data, in
\* three blocks: a without a PE ratio, then b without an FCF yield, then the
\* rest with all three value metrics
GuestRows(a, b) ==
    [t \in 1..GUEST_MAX_TICKERS |->
        IF t <= a THEN <<None, None, None, Some(1), Some(1)>>
        ELSE IF t <= a + b THEN <<None, None, Some(1), None, Some(1)>>
        ELSE <<None, None, Some(2), Some(1), Some(1)>>]

GuestLists ==
    {GuestRows(a, b) : a \in 0..MaxTickers, b \in 0..MaxTickers}

RowLists ==
    UNION {[1..n -> SmallRows] : n \in 0..MaxTickers}
    \cup [1..WideTickers -> WideRows]
    \cup GuestLists

(***************************************************************************)
(* labs/03-stock-pulse/pulse.py: format_trend, _compute_diagnosis          *)
(* A trend (the Q.TREND8 slope) is an integer number of thousandths, so    *)
(* that the thresholds +0.003 and -0.003 are TREND_THRESHOLD and its       *)
(* negation.                                                               *)
(***************************************************************************)
TREND_THRESHOLD == 3

RECURSIVE FirstDimensionValue(_, _)
FirstDimensionValue(vs, dimension) ==
    IF vs = <<>> THEN None
    ELSE IF Head(vs).dimension = Some(dimension) /\ Head(vs).value # None
         THEN Head(vs).value
         ELSE FirstDimensionValue(Tail(vs), dimension)

extract_dimension(response, ticker, metric_id, dimension) ==
    LET company == Get(Get(response, "data", EmptyDict), ticker, EmptyDict)
        metric  == Get(Get(company, "metrics", EmptyDict), metric_id, EmptyDict)
    IN  FirstDimensionValue(Get(metric, "values", <<>>), dimension)

\* mutant: the thresholds themselves count as rising and falling
format_trend_Inclusive(trend_value) ==
    IF trend_value = None THEN "N/A"
    ELSE IF trend_value[1] >= TREND_THRESHOLD THEN "Rising"
    ELSE IF trend_value[1] <= -TREND_THRESHOLD THEN "Falling"
    ELSE "Stable"

format_trend(trend_value) ==
    IF trend_value = None THEN "N/A"
    ELSE IF trend_value[1] > TREND_THRESHOLD THEN "Rising"
    ELSE IF trend_value[1] < -TREND_THRESHOLD THEN "Falling"
    ELSE "Stable"

\* The return value: the label and which of the six message templates the text
\* was built from.
Diagnosis(signal, text) == [signal |-> signal, text |-> text]

DiagnosisOfTrends(r_trend, p_trend) ==
    IF r_trend = "Rising" /\ p_trend = "Falling"
    THEN Diagnosis("OPPORTUNITY", "improving and cheaper")
    ELSE IF r_trend = "Falling" /\ p_trend = "Rising"
    THEN Diagnosis("VALUE TRAP", "deteriorating and pricier")
    ELSE IF r_trend = "Rising" /\ p_trend = "Rising"
    THEN Diagnosis("EARNING IT", "improving and pricier")
    ELSE IF r_trend = "Falling" /\ p_trend = "Falling"
    THEN Diagnosis("WATCH", "deteriorating and cheaper")
    ELSE Diagnosis("STABLE", "no strong trend signal")

\* mutant: the early return is taken only when both trends are missing
compute_diagnosis_BothAbsent(response, ticker) ==
    LET roic_trend == extract_dimension(response, ticker, "roic", "Q.TREND8")
        pe_trend   == extract_dimension(response, ticker, "pe_ratio", "Q.TREND8")
    IN  IF roic_trend = None /\ pe_trend = None
        THEN Diagnosis("STABLE", "insufficient trend data")
        ELSE DiagnosisOfTrends(format_trend(roic_trend), format_trend(pe_trend))

compute_diagnosis(response, ticker) ==
    LET roic_trend == extract_dimension(response, ticker, "roic", "Q.TREND8")
        pe_trend   == extract_dimension(response, ticker, "pe_ratio", "Q.TREND8")
    IN  IF roic_trend = None \/ pe_trend = None
        THEN Diagnosis("STABLE", "insufficient trend data")
        ELSE DiagnosisOfTrends(format_trend(roic_trend), format_trend(pe_trend))

(***************************************************************************)
(* SpecDiagnosis: one call of _compute_diagnosis.                          *)
(***************************************************************************)
NoDiagnosis == Diagnosis("", "")

\* A metric's payload, by the state of its trend: a slope, or one of the
\* three ways of having none ("missing": no such metric, "base": no Q.TREND8
\* entry, "null": a Q.TREND8 entry with a null value).
TrendShapes ==
    {[kind |-> k, slope |-> 0] : k \in {"missing", "base", "null"}}
    \cup {[kind |-> "slope", slope |-> v] : v \in -MaxSlope..MaxSlope}

TrendMetric(shape) ==
    IF shape.kind = "base" THEN [values |-> <<Entry(None, Some(1))>>]
    ELSE IF shape.kind = "null"
    THEN [values |-> <<Entry(None, Some(1)), Entry(Some("Q.TREND8"), None)>>]
    ELSE [values |-> <<Entry(None, Some(1)), Entry(Some("Q.MED8"), Some(5)),
                       Entry(Some("Q.TREND8"), Some(shape.slope))>>]

TrendCompany(roic, pe) ==
    LET shape   == [m \in {"roic", "pe_ratio"} |-> IF m = "roic" THEN roic ELSE pe]
        present == {m \in {"roic", "pe_ratio"} : shape[m].kind # "missing"}
    IN  [company_name |-> "Acme", metrics |-> [m \in present |-> TrendMetric(shape[m])]]

DiagnosisInputs ==
    {[data |-> EmptyDict]}
    \cup {[data |-> <<TrendCompany(r, p)>>] : r \in TrendShapes, p \in TrendShapes}

DiagnosisIdle ==
    /\ dg_data = [data |-> EmptyDict]
    /\ dg_ticker = 1
    /\ dg_out = NoDiagnosis
    /\ dg_pc = "idle"

ComputeDiagnosis ==
    /\ dg_pc = "call"
    /\ dg_out' = compute_diagnosis(dg_data, dg_ticker)
    /\ dg_pc' = "done"
    /\ UNCHANGED <<dg_data, dg_ticker, notDiag>>

(***************************************************************************)
(* The display formatters: format_pct and format_ratio (labs/04),          *)
(* format_value (labs/02) and fmt_val (labs/02 validation).                *)
(* A number is a sign, a whole part and a fraction counted in 1/Grid; a     *)
(* display string is the sequence of its characters.                       *)
(***************************************************************************)
Grid == 10 ^ 5

Num(neg, whole, frac) == [neg |-> neg, whole |-> whole, frac |-> frac]

\* value * 100
Times100(x) ==
    LET f == x.frac * 100
    IN  Num(x.neg, x.whole * 100 + f \div Grid, f % Grid)

DigitChar(d) == <<"0", "1", "2", "3", "4", "5", "6", "7", "8", "9">>[d + 1]

\* the decimal digits of n >= 0, at least "width" of them
RECURSIVE DigitChars(_, _)
DigitChars(n, width) ==
    IF n < 10 /\ width <= 1 THEN <<DigitChar(n)>>
    ELSE DigitChars(n \div 10, width - 1) \o <<DigitChar(n % 10)>>

\* the "," option of the format mini-language: groups of three digits
RECURSIVE GroupedChars(_)
GroupedChars(n) ==
    IF n < 1000 THEN DigitChars(n, 1)
    ELSE GroupedChars(n \div 1000) \o <<",">> \o DigitChars(n % 1000, 3)

\* mutant: the digits beyond the precision are cut off
RoundTo_Truncate(n, unit, tie) == n \div unit

\* n >= 0 in multiples of "unit", rounded to the nearest.  The formatter
\* rounds the float it is given, not the decimal number it stands for: a
\* decimal exactly halfway between two display values is a float on either
\* side of the middle, or the middle itself (then rounded half-even).  "tie"
\* is the side it falls to.
RoundTo(n, unit, tie) ==
    LET q == n \div unit
        r == n % unit
    IN  IF 2 * r < unit THEN q
        ELSE IF 2 * r > unit THEN q + 1
        ELSE IF tie = "up" THEN q + 1 ELSE q

\* f"{x:.<decimals>f}" or f"{x:,.<decimals>f}"
FixedChars(x, decimals, grouped, tie) ==
    LET pow    == 10 ^ decimals
        scaled == RoundTo(x.frac, Grid \div pow, tie)
        whole  == x.whole + scaled \div pow
    IN  (IF x.neg THEN <<"-">> ELSE <<>>)
        \o (IF grouped THEN GroupedChars(whole) ELSE DigitChars(whole, 1))
        \o (IF decimals = 0 THEN <<>> ELSE <<".">> \o DigitChars(scaled % pow, decimals))

NA == <<"N", "/", "A">>

\* labs/04-stock-screener/screener.py
format_pct(value, tie) ==
    IF value = None THEN NA
    ELSE FixedChars(Times100(value[1]), 1, FALSE, tie) \o <<"%">>

format_ratio(value, tie) ==
    IF value = None THEN NA
    ELSE IF value[1].whole >= 1000 THEN FixedChars(value[1], 0, TRUE, tie)
    ELSE FixedChars(value[1], 2, FALSE, tie)

\* labs/02-stock-showdown/showdown.py
PCT_METRICS == {"fcf_yield", "fcf_margin", "total_shareholder_yield", "roic"}

format_value(value, metric_id, tie) ==
    IF value = None THEN NA
    ELSE IF metric_id \in PCT_METRICS
    THEN FixedChars(Times100(value[1]), 1, FALSE, tie) \o <<"%">>
    ELSE IF value[1].whole >= 1000 THEN FixedChars(value[1], 0, TRUE, tie)
    ELSE FixedChars(value[1], 2, FALSE, tie)

\* labs/02-stock-showdown/validation/validate.py
METRIC_MAP ==
    [m \in {"pe_ratio", "ps_ratio", "ev_ebitda", "ev_ebit", "dividend_yield"} |->
        [format |-> IF m = "dividend_yield" THEN "pct" ELSE "ratio"]]

fmt_val(value, metric_id, tie) ==
    IF value = None THEN NA
    ELSE IF METRIC_MAP[metric_id].format = "pct"
    THEN FixedChars(Times100(value[1]), 2, FALSE, tie) \o <<"%">>
    ELSE IF value[1].whole >= 1000 THEN FixedChars(value[1], 0, TRUE, tie)
    ELSE FixedChars(value[1], 2, FALSE, tie)

(***************************************************************************)
(* SpecFormat: each formatter called once, in any order, on one value.     *)
(***************************************************************************)
Formatters == {"format_pct", "format_ratio", "format_value", "fmt_val"}

Ties == {"down", "up"}

\* Whole parts on both sides of the 1000 threshold and of every thousands
\* group, and fractions on, just below and just above the half of every
\* display unit in use (1, 0.01, 0.001, 0.0001).
Wholes == {0, 1, 12, 999, 1000, 1234, 999999, 1000000, 1234567} \cup (0..MaxWhole)

Fractions ==
    {0, 1, 4, 5, 6, 49, 50, 51, 499, 500, 501, 12345,
     49999, 50000, 50001, 99499, 99500, 99999}

FormatValues ==
    {None} \cup ({Some(Num(s, w, f)) : s \in BOOLEAN, w \in Wholes, f \in Fractions}
             \ {Some(Num(TRUE, 0, 0))})

FormatIdle ==
    /\ fm_value = None
    /\ fm_metric = [format_value |-> "pe_ratio", fmt_val |-> "pe_ratio"]
    /\ fm_out = [f \in Formatters |-> <<>>]
    /\ fm_pc = {}

FormatPct ==
    /\ "format_pct" \in fm_pc
    /\ \E tie \in Ties :
           fm_out' = [fm_out EXCEPT !["format_pct"] = format_pct(fm_value, tie)]
    /\ fm_pc' = fm_pc \ {"format_pct"}
    /\ UNCHANGED <<fm_value, fm_metric, notFormat>>

FormatRatio ==
    /\ "format_ratio" \in fm_pc
    /\ \E tie \in Ties :
           fm_out' = [fm_out EXCEPT !["format_ratio"] = format_ratio(fm_value, tie)]
    /\ fm_pc' = fm_pc \ {"format_ratio"}
    /\ UNCHANGED <<fm_value, fm_metric, notFormat>>

FormatValue ==
    /\ "format_value" \in fm_pc
    /\ \E tie \in Ties :
           fm_out' = [fm_out EXCEPT !["format_value"] =
                          format_value(fm_value, fm_metric.format_value, tie)]
    /\ fm_pc' = fm_pc \ {"format_value"}
    /\ UNCHANGED <<fm_value, fm_metric, notFormat>>

FmtVal ==
    /\ "fmt_val" \in fm_pc
    /\ \E tie \in Ties :
           fm_out' = [fm_out EXCEPT !["fmt_val"] =
                          fmt_val(fm_value, fm_metric.fmt_val, tie)]
    /\ fm_pc' = fm_pc \ {"fmt_val"}
    /\ UNCHANGED <<fm_value, fm_metric, notFormat>>

(***************************************************************************)
(* The scripts as processes.  One run of one script: "script" names it,    *)
(* "env" is what it is started with (environment variables, argv, module   *)
(* configuration), "locals" its local variables, "calls" the calls it has  *)
(* made to the outside (upstream API, free market-data source, datastore,  *)
(* mail server) in order, "printed" what it has printed and "exit_status"  *)
(* the status the process ended with.  What the outside answers is chosen  *)
(* when the call is made.                                                  *)
(*                                                                         *)
(* Tickers are strings here, a dict that is iterated is the sequence of    *)
(* its [k, v] pairs in insertion order, and a PE ratio is an integer       *)
(* number of tenths.                                                       *)
(***************************************************************************)
Pair(key, value) == [k |-> key, v |-> value]

\* d.get(key)
dict_get(d, key) ==
    IF \E i \in DOMAIN d : d[i].k = key
    THEN d[CHOOSE i \in DOMAIN d : d[i].k = key].v
    ELSE None

Call(to, what, ok) == [to |-> to, what |-> what, ok |-> ok]

\* sys.exit(code) after printing message; a return from main is Exit(0, ...)
Exit(code, message) ==
    /\ pc' = "exit"
    /\ exit_status' = Some(code)
    /\ printed' = Append(printed, message)

\* An upstream request that does not end in a 200 response: an HTTP status,
\* or no response at all.
ApiFailures == {"401", "429", "500", "timeout", "connect"}

(***************************************************************************)
(* labs/10-pe-ratio-alert/alert.py and labs/01-free-pe-alert/alert.py      *)
(***************************************************************************)
PE_THRESHOLD == 20

\* labs/10 fetch_pe_ratios, the loop over data["data"]
FirstValue(vs) ==
    IF vs # <<>> /\ vs[1].value # None THEN vs[1].value ELSE None

PeRatiosOfResponse(body) ==
    LET data == Get(body, "data", <<>>)
    IN  [i \in 1..Len(data) |->
            LET metrics == Get(data[i].v, "metrics", EmptyDict)
                pe_data == Get(metrics, "pe_ratio", EmptyDict)
            IN  Pair(data[i].k, FirstValue(Get(pe_data, "values", <<>>)))]

Alert(ticker, pe) == [ticker |-> ticker, pe_ratio |-> pe]

\* labs/10 check_alerts; threshold in tenths
RECURSIVE check_alerts(_, _)
check_alerts(pe_ratios, threshold) ==
    IF pe_ratios = <<>> THEN <<>>
    ELSE LET pe   == Head(pe_ratios).v
             rest == check_alerts(Tail(pe_ratios), threshold)
         IN  IF pe # None /\ pe[1] < threshold
             THEN <<Alert(Head(pe_ratios).k, pe)>> \o rest
             ELSE rest

\* mutant: a PE equal to the threshold raises an alert too
RECURSIVE MainAlerts_AtThreshold(_, _)
MainAlerts_AtThreshold(watchlist, pe_ratios) ==
    IF watchlist = <<>> THEN <<>>
    ELSE LET pe   == dict_get(pe_ratios, Head(watchlist))
             rest == MainAlerts_AtThreshold(Tail(watchlist), pe_ratios)
         IN  IF pe = None THEN rest
             ELSE IF pe[1] <= PE_THRESHOLD * 10
             THEN <<Alert(Head(watchlist), pe)>> \o rest
             ELSE rest

\* main of both labs: the loop over WATCHLIST
RECURSIVE MainAlerts(_, _)
MainAlerts(watchlist, pe_ratios) ==
    IF watchlist = <<>> THEN <<>>
    ELSE LET pe   == dict_get(pe_ratios, Head(watchlist))
             rest == MainAlerts(Tail(watchlist), pe_ratios)
         IN  IF pe = None THEN rest
             ELSE IF pe[1] < PE_THRESHOLD * 10
             THEN <<Alert(Head(watchlist), pe)>> \o rest
             ELSE rest

\* Inputs of the alert labs.  A watchlist names each of its tickers once.
WATCHLIST == <<"AAPL", "MSFT", "GOOGL", "AMZN", "META">>

Watchlists ==
    {SubSeq(WATCHLIST, 1, n) : n \in 0..MaxWatch} \cup {<<WATCHLIST[2], WATCHLIST[1]>>}

\* 18.3, 20.0 and 25.1
PeValues == {183, 200, 251}

PeCells == {None} \cup {Some(pe) : pe \in PeValues}

\* What a 200 response holds for a ticker: nothing ("missing"), a pe_ratio
\* without values ("novalues"), a first value that is null ("null"), or a PE.
ApiPeCells ==
    {[kind |-> k, pe |-> 0] : k \in {"missing", "novalues", "null"}}
    \cup {[kind |-> "value", pe |-> pe] : pe \in PeValues}

PeCompany(cell) ==
    IF cell.kind = "nometric" THEN [metrics |-> EmptyDict]
    ELSE
    [metrics |-> [pe_ratio |-> [values |->
        IF cell.kind = "novalues" THEN <<>>
        ELSE IF cell.kind = "null" THEN <<Entry(None, None), Entry(None, Some(150))>>
        ELSE <<Entry(None, Some(cell.pe))>>]]]

PeResponses(watchlist) ==
    {LET asked == [i \in 1..Len(watchlist) |-> Pair(watchlist[i], cells[i])]
         held  == SelectSeq(asked, LAMBDA p : p.v.kind # "missing")
     IN  [data |-> [i \in 1..Len(held) |-> Pair(held[i].k, PeCompany(held[i].v))]]
     : cells \in [1..Len(watchlist) -> ApiPeCells]}

PeRatioDicts ==
    UNION {{[i \in 1..Len(w) |-> Pair(w[i], cells[i])] : cells \in [1..Len(w) -> PeCells]}
           : w \in Watchlists}

AlertLocals == [pe_ratios |-> <<>>, alerts |-> <<>>]

\* labs/10 main up to the request: fetch_pe_ratios without an API key
Alert10_NoKey ==
    /\ script = "alert10" /\ pc = "fetch_pe_ratios"
    /\ ~env.api_key
    /\ Exit(1, "Error: METRICDUCK_API_KEY not set in environment")
    /\ UNCHANGED <<script, env, locals, calls, db, notRun>>

\* the request fails: 401, 429 and other statuses are reported and exit 1; a
\* timeout or connection failure is an exception nobody catches, which ends
\* the process with a traceback and status 1
Alert10_RequestFails ==
    /\ script = "alert10" /\ pc = "fetch_pe_ratios"
    /\ env.api_key
    /\ \E failure \in ApiFailures :
        /\ calls' = Append(calls, Call("api", failure, FALSE))
        /\ Exit(1, CASE failure = "401" -> "Error: Invalid API key"
                     [] failure = "429" -> "Rate limit reached"
                     [] failure = "500" -> "Error: API returned"
                     [] OTHER -> "Traceback")
    /\ UNCHANGED <<script, env, locals, db, notRun>>

Alert10_Request ==
    /\ script = "alert10" /\ pc = "fetch_pe_ratios"
    /\ env.api_key
    /\ \E body \in PeResponses(env.WATCHLIST) :
        /\ calls' = Append(calls, Call("api", "200", TRUE))
        /\ locals' = [locals EXCEPT !.pe_ratios = PeRatiosOfResponse(body)]
    /\ pc' = "alerts"
    /\ UNCHANGED <<script, env, printed, exit_status, db, notRun>>

\* the loop over WATCHLIST, the summary and the return
Alert10_Main ==
    /\ script = "alert10" /\ pc = "alerts"
    /\ LET alerts == MainAlerts(env.WATCHLIST, locals.pe_ratios)
       IN  /\ locals' = [locals EXCEPT !.alerts = alerts]
           /\ Exit(0, IF alerts # <<>> THEN "ALERT(S) TRIGGERED" ELSE "No alerts triggered")
    /\ UNCHANGED <<script, env, calls, db, notRun>>

\* labs/01 fetch_pe_ratios: one yf.Ticker(ticker).info per step; "raise" is
\* any exception of the source, None an info dict without trailingPE
Alert01_Fetch ==
    /\ script = "alert01" /\ pc = "fetch_pe_ratios"
    /\ Len(locals.pe_ratios) < Len(env.WATCHLIST)
    /\ LET ticker == env.WATCHLIST[Len(locals.pe_ratios) + 1]
       IN  \/ /\ calls' = Append(calls, Call("yfinance", ticker, FALSE))
              /\ locals' = [locals EXCEPT !.pe_ratios = Append(@, Pair(ticker, None))]
              /\ printed' = Append(printed, "Warning: Could not fetch data")
           \/ /\ \E pe \in PeCells :
                    locals' = [locals EXCEPT !.pe_ratios = Append(@, Pair(ticker, pe))]
              /\ calls' = Append(calls, Call("yfinance", ticker, TRUE))
              /\ UNCHANGED printed
    /\ UNCHANGED <<script, env, pc, exit_status, db, notRun>>

Alert01_Fetched ==
    /\ script = "alert01" /\ pc = "fetch_pe_ratios"
    /\ Len(locals.pe_ratios) = Len(env.WATCHLIST)
    /\ pc' = "alerts"
    /\ UNCHANGED <<script, env, locals, calls, printed, exit_status, db, notRun>>

\* the loop over WATCHLIST, the summary, the optional mail (send_email_alert
\* catches every exception of the mail server) and the return
Alert01_Main ==
    /\ script = "alert01" /\ pc = "alerts"
    /\ LET alerts == MainAlerts(env.WATCHLIST, locals.pe_ratios)
       IN  /\ locals' = [locals EXCEPT !.alerts = alerts]
           /\ Exit(0, IF alerts # <<>> THEN "ALERT(S) TRIGGERED" ELSE "No alerts triggered")
           /\ IF alerts # <<>> /\ env.EMAIL_ENABLED
              THEN \E sent \in BOOLEAN : calls' = Append(calls, Call("smtp", "send", sent))
              ELSE UNCHANGED calls
    /\ UNCHANGED <<script, env, db, notRun>>

\* a direct call of labs/10 check_alerts
CheckAlerts ==
    /\ script = "check_alerts" /\ pc = "call"
    /\ locals' = [locals EXCEPT !.alerts = check_alerts(env.pe_ratios, env.threshold)]
    /\ pc' = "done"
    /\ UNCHANGED <<script, env, calls, printed, exit_status, db, notRun>>

(***************************************************************************)
(* SpecRun: one run of one script.                                         *)
(***************************************************************************)
EmptyDb == [companies |-> {}, metrics_latest |-> {}, sync_log |-> <<>>]

RunIdle ==
    /\ script = "none"
    /\ pc = "idle"
    /\ env = EmptyDict
    /\ locals = EmptyDict
    /\ calls = <<>>
    /\ printed = <<>>
    /\ exit_status = None
    /\ db = EmptyDb

\* a process that has just started
Started ==
    /\ calls = <<>>
    /\ printed = <<>>
    /\ exit_status = None

InitAlert ==
    \/ /\ script = "alert10" /\ pc = "fetch_pe_ratios"
       /\ env \in [api_key : BOOLEAN, WATCHLIST : Watchlists]
       /\ locals = AlertLocals
    \/ /\ script = "alert01" /\ pc = "fetch_pe_ratios"
       /\ env \in [EMAIL_ENABLED : BOOLEAN, WATCHLIST : Watchlists]
       /\ locals = AlertLocals
    \/ /\ script = "check_alerts" /\ pc = "call"
       /\ env \in [pe_ratios : PeRatioDicts, threshold : {190, 200, 251}]
       /\ locals = AlertLocals

NextAlert ==
    \/ Alert10_NoKey
    \/ Alert10_RequestFails
    \/ Alert10_Request
    \/ Alert10_Main
    \/ Alert01_Fetch
    \/ Alert01_Fetched
    \/ Alert01_Main
    \/ CheckAlerts

(***************************************************************************)
(* labs/02-stock-showdown/validation/validate.py                           *)
(* Of the five metrics compared, the model carries one (pe_ratio).         *)
(***************************************************************************)
GUEST_BATCH_SIZE == 4

DEFAULT_TICKERS ==
    <<"AAPL", "MSFT", "NVDA", "GOOGL", "META", "AMZN", "JPM", "TSLA", "V", "JNJ">>

ValidateTickers == {SubSeq(DEFAULT_TICKERS, 1, n) : n \in 1..(GUEST_BATCH_SIZE + MaxExtra)}

\* the 200 responses to a request for a batch: each ticker with or without
\* a pe_ratio value
BatchResponses(batch) ==
    {[data |-> [i \in 1..Len(batch) |-> Pair(batch[i], PeCompany(cells[i]))]]
     : cells \in [1..Len(batch) -> {[kind |-> "novalues", pe |-> 0],
                                     [kind |-> "value", pe |-> 183]}]}

\* fetch_metricduck, the loop over the batch after a 200 response
ResultOfBatch(batch, body) ==
    [i \in 1..Len(batch) |->
        LET company == dict_get(Get(body, "data", <<>>), batch[i])
            metrics == IF company = None THEN EmptyDict
                       ELSE Get(company, "metrics", EmptyDict)
            vals    == Get(Get(metrics, "pe_ratio", EmptyDict), "values", <<>>)
        IN  Pair(batch[i], FirstValue(vals))]

ValidateLocals(e) ==
    [batch_size |-> IF e.api_key THEN Len(e.tickers) ELSE GUEST_BATCH_SIZE,
     i |-> 0, requests |-> <<>>, md_data |-> <<>>, yf_data |-> <<>>, results |-> <<>>]

\* mutant: the slice takes one ticker more, which the next batch repeats
Batch_Inclusive(tickers, i, batch_size) ==
    SubSeq(tickers, i + 1,
           IF i + batch_size + 1 < Len(tickers) THEN i + batch_size + 1 ELSE Len(tickers))

\* tickers[i:i + batch_size]
Batch(tickers, i, batch_size) ==
    SubSeq(tickers, i + 1, IF i + batch_size < Len(tickers) THEN i + batch_size ELSE Len(tickers))

\* fetch_metricduck: a request of the loop fails; the function prints the
\* error and returns what the earlier batches gave
Validate_BatchFails ==
    /\ script = "validate" /\ pc = "fetch_metricduck"
    /\ locals.i < Len(env.tickers)
    /\ \E failure \in ApiFailures :
        /\ calls' = Append(calls, Call("api", failure, FALSE))
        /\ printed' = Append(printed, "ERROR: MetricDuck API")
    /\ locals' = [locals EXCEPT !.requests =
           Append(@, Batch(env.tickers, locals.i, locals.batch_size))]
    /\ pc' = "fetched"
    /\ UNCHANGED <<script, env, exit_status, db, notRun>>

Validate_Batch ==
    /\ script = "validate" /\ pc = "fetch_metricduck"
    /\ locals.i < Len(env.tickers)
    /\ LET batch == Batch(env.tickers, locals.i, locals.batch_size)
       IN  \E body \in BatchResponses(batch) :
               locals' = [locals EXCEPT !.requests = Append(@, batch),
                                        !.md_data = @ \o ResultOfBatch(batch, body),
                                        !.i = @ + locals.batch_size]
    /\ calls' = Append(calls, Call("api", "200", TRUE))
    /\ UNCHANGED <<script, env, pc, printed, exit_status, db, notRun>>

Validate_Fetched ==
    /\ script = "validate" /\ pc = "fetch_metricduck"
    /\ locals.i >= Len(env.tickers)
    /\ pc' = "fetched"
    /\ UNCHANGED <<script, env, locals, calls, printed, exit_status, db, notRun>>

\* main: if not md_data
Validate_Aborts ==
    /\ script = "validate" /\ pc = "fetched"
    /\ locals.md_data = <<>>
    /\ Exit(1, "Failed to fetch MetricDuck data. Aborting.")
    /\ UNCHANGED <<script, env, locals, calls, db, notRun>>

Validate_Proceeds ==
    /\ script = "validate" /\ pc = "fetched"
    /\ locals.md_data # <<>>
    /\ pc' = "fetch_yfinance"
    /\ UNCHANGED <<script, env, locals, calls, printed, exit_status, db, notRun>>

\* fetch_yfinance, one ticker per step: an exception of the source gives
\* the ticker a record of None
Validate_YFinance ==
    /\ script = "validate" /\ pc = "fetch_yfinance"
    /\ Len(locals.yf_data) < Len(env.tickers)
    /\ LET ticker == env.tickers[Len(locals.yf_data) + 1]
       IN  \/ /\ calls' = Append(calls, Call("yfinance", ticker, FALSE))
              /\ locals' = [locals EXCEPT !.yf_data = Append(@, Pair(ticker, None))]
              /\ printed' = Append(printed, "yfinance error")
           \/ /\ calls' = Append(calls, Call("yfinance", ticker, TRUE))
              /\ locals' = [locals EXCEPT !.yf_data = Append(@, Pair(ticker, Some(183)))]
              /\ UNCHANGED printed
    /\ UNCHANGED <<script, env, pc, exit_status, db, notRun>>

THRESHOLD_OK == 5

THRESHOLD_INVESTIGATE == 15

\* abs(a - b) / abs(b) * 100, as a fraction
pct_diff(a, b) ==
    IF a = None \/ b = None THEN None
    ELSE IF b[1] = 0 THEN None
    ELSE Some([num |-> 100 * (IF a[1] >= b[1] THEN a[1] - b[1] ELSE b[1] - a[1]),
               den |-> IF b[1] >= 0 THEN b[1] ELSE 0 - b[1]])

verdict(diff) ==
    IF diff = None THEN "N/A"
    ELSE IF diff[1].num < THRESHOLD_OK * diff[1].den THEN "OK"
    ELSE IF diff[1].num < THRESHOLD_INVESTIGATE * diff[1].den THEN "INVESTIGATE"
    ELSE "CRITICAL"

\* round(diff, 1), as a number of tenths (ties to even)
RoundDiff(diff) ==
    LET q == (10 * diff.num) \div diff.den
        r == (10 * diff.num) % diff.den
    IN  IF 2 * r < diff.den THEN q
        ELSE IF 2 * r > diff.den THEN q + 1
        ELSE IF q % 2 = 0 THEN q ELSE q + 1

\* compare: one record per ticker (for the one metric carried)
compare(md_data, yf_data, tickers) ==
    [i \in 1..Len(tickers) |->
        LET md_val == dict_get(md_data, tickers[i])
            yf_val == dict_get(yf_data, tickers[i])
            diff   == pct_diff(md_val, yf_val)
        IN  [ticker     |-> tickers[i],
             metricduck |-> md_val,
             yfinance   |-> yf_val,
             pct_diff   |-> IF diff # None THEN Some(RoundDiff(diff[1])) ELSE None,
             verdict    |-> verdict(diff)]]

\* compare, print_console, write_json, write_report and the summary
Validate_Report ==
    /\ script = "validate" /\ pc = "fetch_yfinance"
    /\ Len(locals.yf_data) = Len(env.tickers)
    /\ locals' = [locals EXCEPT !.results =
           compare(locals.md_data, locals.yf_data, env.tickers)]
    /\ Exit(0, "REPORT.md")
    /\ UNCHANGED <<script, env, calls, db, notRun>>

\* a direct call of compare on one ticker
Compare ==
    /\ script = "compare" /\ pc = "call"
    /\ locals' = [locals EXCEPT !.results =
           compare(env.md_data, env.yf_data, env.tickers)]
    /\ pc' = "done"
    /\ UNCHANGED <<script, env, calls, printed, exit_status, db, notRun>>

\* the values of one metric in the two sources, in the same unit
MdValues == {None} \cup {Some(v) : v \in {0, 9504, 10000, 10494, 10496, 10500, 11496, 11500, 12000}}

YfValues == {None} \cup {Some(v) : v \in {0, 10000, 0 - 10000}}

InitValidate ==
    \/ /\ script = "validate" /\ pc = "fetch_metricduck"
       /\ env \in [api_key : BOOLEAN, tickers : ValidateTickers]
       /\ locals = ValidateLocals(env)
    \/ /\ script = "compare" /\ pc = "call"
       /\ \E md_val \in MdValues, yf_val \in YfValues :
              env \in [api_key : {FALSE}, tickers : {<<"AAPL">>},
                       md_data : {<<>>, <<Pair("AAPL", md_val)>>},
                       yf_data : {<<>>, <<Pair("AAPL", yf_val)>>}]
       /\ locals = ValidateLocals(env)

NextValidate ==
    \/ Validate_BatchFails
    \/ Validate_Batch
    \/ Validate_Fetched
    \/ Validate_Aborts
    \/ Validate_Proceeds
    \/ Validate_YFinance
    \/ Validate_Report
    \/ Compare

(***************************************************************************)
(* labs/02-stock-showdown/showdown.py and labs/03-stock-pulse/pulse.py     *)
(* Of the metrics displayed, the model carries one (pe_ratio).             *)
(***************************************************************************)
STOCK_A == "AAPL"

STOCK_B == "MSFT"

DEFAULT_TICKER == "AAPL"

\* str.upper() on the tickers that are typed in
upper(t) ==
    CASE t = "nvda" -> "NVDA"
      [] t = "amd" -> "AMD"
      [] t = "intc" -> "INTC"
      [] OTHER -> t

\* the 200 responses to a request for the tickers asked: a body without
\* "data", or data holding any of the tickers, each with or without a PE
CompanyCells ==
    {[kind |-> "nometric", pe |-> Num(FALSE, 0, 0)],
     [kind |-> "novalues", pe |-> Num(FALSE, 0, 0)],
     [kind |-> "value", pe |-> Num(FALSE, 18, 30000)]}

Responses(asked) ==
    {EmptyDict}
    \cup UNION {{[data |-> [t \in held |-> PeCompany(cells[t])]] : cells \in [held -> CompanyCells]}
                : held \in SUBSET asked}

\* a symbol the API may answer under instead of the one asked
OtherSymbol == "GOOG"

NoDataReturned(response) == response = EmptyDict \/ Get(response, "data", EmptyDict) = EmptyDict

\* labs/03 format_value
format_value_pulse(value, unit_type, tie) ==
    IF value = None THEN NA
    ELSE IF unit_type = "pct" THEN FixedChars(Times100(value[1]), 1, FALSE, tie) \o <<"%">>
    ELSE IF value[1].whole >= 1000 THEN FixedChars(value[1], 0, TRUE, tie)
    ELSE FixedChars(value[1], 2, FALSE, tie)

ShowdownLocals ==
    [stock_a |-> "", stock_b |-> "", api_data |-> EmptyDict, yf_data |-> <<>>, shown |-> <<>>]

\* main: the positional arguments
Showdown_Usage ==
    /\ script = "showdown" /\ pc = "args"
    /\ Len(env.args) \notin {0, 2}
    /\ Exit(1, "Usage: python showdown.py [TICKER1 TICKER2] [--json]")
    /\ UNCHANGED <<script, env, locals, calls, db, notRun>>

Showdown_Args ==
    /\ script = "showdown" /\ pc = "args"
    /\ Len(env.args) \in {0, 2}
    /\ locals' = [locals EXCEPT
           !.stock_a = IF Len(env.args) = 2 THEN upper(env.args[1]) ELSE STOCK_A,
           !.stock_b = IF Len(env.args) = 2 THEN upper(env.args[2]) ELSE STOCK_B]
    /\ pc' = "stocks"
    /\ UNCHANGED <<script, env, calls, printed, exit_status, db, notRun>>

Showdown_Self ==
    /\ script = "showdown" /\ pc = "stocks"
    /\ locals.stock_a = locals.stock_b
    /\ Exit(1, "Error: Cannot compare to itself!")
    /\ UNCHANGED <<script, env, locals, calls, db, notRun>>

\* fetch_stock_data: every failure is printed and exits 1
Showdown_RequestFails ==
    /\ script = "showdown" /\ pc = "stocks"
    /\ locals.stock_a # locals.stock_b
    /\ \E failure \in ApiFailures :
        /\ calls' = Append(calls, Call("api", failure, FALSE))
        /\ Exit(1, "Error: API")
    /\ UNCHANGED <<script, env, locals, db, notRun>>

Showdown_Request ==
    /\ script = "showdown" /\ pc = "stocks"
    /\ locals.stock_a # locals.stock_b
    /\ \E body \in Responses({locals.stock_a, locals.stock_b}) :
           locals' = [locals EXCEPT !.api_data = body]
    /\ calls' = Append(calls, Call("api", "200", TRUE))
    /\ pc' = "api_data"
    /\ UNCHANGED <<script, env, printed, exit_status, db, notRun>>

Showdown_NoData ==
    /\ script = "showdown" /\ pc = "api_data"
    /\ NoDataReturned(locals.api_data)
    /\ Exit(1, "Error: No data returned from API.")
    /\ UNCHANGED <<script, env, locals, calls, db, notRun>>

Showdown_NoTicker ==
    /\ script = "showdown" /\ pc = "api_data"
    /\ ~NoDataReturned(locals.api_data)
    /\ \E t \in {locals.stock_a, locals.stock_b} : t \notin DOMAIN locals.api_data.data
    /\ Exit(1, "Error: No data for ticker. Check the ticker symbol.")
    /\ UNCHANGED <<script, env, locals, calls, db, notRun>>

ShowdownShown(l) ==
    [t \in {l.stock_a, l.stock_b} |->
        format_value(extract_metric_showdown(l.api_data, t, "pe_ratio"), "pe_ratio", "down")]

Showdown_Json ==
    /\ script = "showdown" /\ pc = "api_data"
    /\ ~NoDataReturned(locals.api_data)
    /\ {locals.stock_a, locals.stock_b} \subseteq DOMAIN locals.api_data.data
    /\ env.json
    /\ locals' = [locals EXCEPT !.shown = ShowdownShown(locals)]
    /\ Exit(0, "json")
    /\ UNCHANGED <<script, env, calls, db, notRun>>

Showdown_Checked ==
    /\ script = "showdown" /\ pc = "api_data"
    /\ ~NoDataReturned(locals.api_data)
    /\ {locals.stock_a, locals.stock_b} \subseteq DOMAIN locals.api_data.data
    /\ ~env.json
    /\ pc' = IF env.HAS_YFINANCE THEN "yfinance" ELSE "display"
    /\ UNCHANGED <<script, env, locals, calls, printed, exit_status, db, notRun>>

\* fetch_yfinance_context, one ticker per step: an exception of the source
\* gives the ticker the record of absent values
YfContext(sector, beta) == [sector |-> sector, beta |-> beta]

\* mutant: the exception of the source is not caught
Showdown_YFinance_Raises ==
    /\ script = "showdown" /\ pc = "yfinance"
    /\ Len(locals.yf_data) < 2
    /\ LET ticker == <<locals.stock_a, locals.stock_b>>[Len(locals.yf_data) + 1]
       IN  \/ /\ calls' = Append(calls, Call("yfinance", ticker, FALSE))
              /\ Exit(1, "Traceback")
              /\ UNCHANGED locals
           \/ /\ calls' = Append(calls, Call("yfinance", ticker, TRUE))
              /\ locals' = [locals EXCEPT
                     !.yf_data = Append(@, Pair(ticker, YfContext("Technology", Some(12))))]
              /\ UNCHANGED <<pc, printed, exit_status>>
    /\ UNCHANGED <<script, env, db, notRun>>

Showdown_YFinance ==
    /\ script = "showdown" /\ pc = "yfinance"
    /\ Len(locals.yf_data) < 2
    /\ LET ticker == <<locals.stock_a, locals.stock_b>>[Len(locals.yf_data) + 1]
       IN  \/ /\ calls' = Append(calls, Call("yfinance", ticker, FALSE))
              /\ locals' = [locals EXCEPT
                     !.yf_data = Append(@, Pair(ticker, YfContext("N/A", None)))]
           \/ /\ calls' = Append(calls, Call("yfinance", ticker, TRUE))
              /\ locals' = [locals EXCEPT
                     !.yf_data = Append(@, Pair(ticker, YfContext("Technology", Some(12))))]
    /\ UNCHANGED <<script, env, pc, printed, exit_status, db, notRun>>

Showdown_YFinanceDone ==
    /\ script = "showdown" /\ pc = "yfinance"
    /\ Len(locals.yf_data) = 2
    /\ pc' = "display"
    /\ UNCHANGED <<script, env, locals, calls, printed, exit_status, db, notRun>>

\* the panels, the market context and the verdict
Showdown_Display ==
    /\ script = "showdown" /\ pc = "display"
    /\ locals' = [locals EXCEPT !.shown = ShowdownShown(locals)]
    /\ Exit(0, "VERDICT")
    /\ UNCHANGED <<script, env, calls, db, notRun>>

\* what a dry run prints before it exits with status 0
DryRun(credits) ==
    /\ locals' = [locals EXCEPT !.credits = credits]
    /\ printed' = printed \o <<"Dry run - no API calls made.", "Estimated cost">>
    /\ exit_status' = Some(0)
    /\ pc' = "exit"

PulseLocals == [ticker |-> "", credits |-> 0, api_data |-> EmptyDict, shown |-> <<>>]

\* labs/03 ALL_METRIC_IDS
PULSE_METRIC_IDS ==
    <<"roic", "gross_margin", "oper_margin", "fcf_margin", "pe_ratio", "ev_ebitda",
      "revenues", "debt_to_equity">>

ALL_DIMENSIONS == <<"Q.MED8", "Q.TREND8", "TTM.YOY", "TTM.CAGR3">>

Pulse_Usage ==
    /\ script = "pulse" /\ pc = "args"
    /\ Len(env.args) \notin {0, 1}
    /\ Exit(1, "Usage: python pulse.py [TICKER] [--json] [--dry-run]")
    /\ UNCHANGED <<script, env, locals, calls, db, notRun>>

Pulse_Args ==
    /\ script = "pulse" /\ pc = "args"
    /\ Len(env.args) \in {0, 1}
    /\ locals' = [locals EXCEPT
           !.ticker = IF Len(env.args) = 1 THEN upper(env.args[1]) ELSE DEFAULT_TICKER]
    /\ pc' = "ticker"
    /\ UNCHANGED <<script, env, calls, printed, exit_status, db, notRun>>

Pulse_DryRun ==
    /\ script = "pulse" /\ pc = "ticker"
    /\ env.dry_run
    /\ DryRun(1 * Len(PULSE_METRIC_IDS) * (1 + Len(ALL_DIMENSIONS)))
    /\ UNCHANGED <<script, env, calls, db, notRun>>

Pulse_RequestFails ==
    /\ script = "pulse" /\ pc = "ticker"
    /\ ~env.dry_run
    /\ \E failure \in ApiFailures :
        /\ calls' = Append(calls, Call("api", failure, FALSE))
        /\ Exit(1, "Error: API")
    /\ UNCHANGED <<script, env, locals, db, notRun>>

Pulse_Request ==
    /\ script = "pulse" /\ pc = "ticker"
    /\ ~env.dry_run
    /\ \E body \in Responses({locals.ticker, OtherSymbol}) :
           locals' = [locals EXCEPT !.api_data = body]
    /\ calls' = Append(calls, Call("api", "200", TRUE))
    /\ pc' = "api_data"
    /\ UNCHANGED <<script, env, printed, exit_status, db, notRun>>

Pulse_NoData ==
    /\ script = "pulse" /\ pc = "api_data"
    /\ NoDataReturned(locals.api_data)
    /\ Exit(1, "Error: No data returned from API.")
    /\ UNCHANGED <<script, env, locals, calls, db, notRun>>

Pulse_NoTicker ==
    /\ script = "pulse" /\ pc = "api_data"
    /\ ~NoDataReturned(locals.api_data)
    /\ locals.ticker \notin DOMAIN locals.api_data.data
    /\ Exit(1, "Error: No data for ticker. Check the ticker symbol.")
    /\ UNCHANGED <<script, env, locals, calls, db, notRun>>

\* build_pulse_data or display_pulse
Pulse_Display ==
    /\ script = "pulse" /\ pc = "api_data"
    /\ ~NoDataReturned(locals.api_data)
    /\ locals.ticker \in DOMAIN locals.api_data.data
    /\ locals' = [locals EXCEPT !.shown =
           [t \in {locals.ticker} |->
               format_value_pulse(extract_metric_pulse(locals.api_data, t, "pe_ratio"),
                                  "ratio", "down")]]
    /\ Exit(0, IF env.json THEN "json" ELSE "PULSE")
    /\ UNCHANGED <<script, env, calls, db, notRun>>

(***************************************************************************)
(* labs/02-stock-showdown/showdown.py: the two panels, in table mode       *)
(* (display_panel, display_verdict) and in --json mode                     *)
(* (build_comparison_data), called on the same payload.                    *)
(***************************************************************************)
\* (display_name, metric_id, prefer, exclusive)
VALUATION_METRICS ==
    << <<"PE Ratio", "pe_ratio", "lower", FALSE>>,
       <<"EV/EBITDA", "ev_ebitda", "lower", FALSE>>,
       <<"EV/EBIT", "ev_ebit", "lower", TRUE>>,
       <<"FCF Yield", "fcf_yield", "higher", TRUE>> >>

SHOWDOWN_QUALITY_METRICS ==
    << <<"ROIC", "roic", "higher", TRUE>>,
       <<"FCF Margin", "fcf_margin", "higher", TRUE>>,
       <<"Shareholder Yield", "total_shareholder_yield", "higher", TRUE>> >>

compare_metric(val_a, val_b, prefer) ==
    IF val_a = None /\ val_b = None THEN "tie"
    ELSE IF val_a = None THEN "B"
    ELSE IF val_b = None THEN "A"
    ELSE IF prefer = "lower"
         THEN (IF val_a[1] < val_b[1] THEN "A" ELSE IF val_b[1] < val_a[1] THEN "B" ELSE "tie")
         ELSE (IF val_a[1] > val_b[1] THEN "A" ELSE IF val_b[1] > val_a[1] THEN "B" ELSE "tie")

\* display_panel: the loop over the metrics, from the state st of a_wins,
\* b_wins, total and the winner column printed so far
RECURSIVE PanelRows(_, _, _, _, _)
PanelRows(st, metrics, response, ticker_a, ticker_b) ==
    IF metrics = <<>> THEN st
    ELSE LET metric_id == Head(metrics)[2]
             a_val     == extract_metric_showdown(response, ticker_a, metric_id)
             b_val     == extract_metric_showdown(response, ticker_b, metric_id)
             winner    == compare_metric(a_val, b_val, Head(metrics)[3])
             next ==
                 IF winner = "A"
                 THEN [a_wins |-> st.a_wins + 1, b_wins |-> st.b_wins, total |-> st.total + 1,
                       winner_display |-> Append(st.winner_display, <<"<-", ticker_a>>)]
                 ELSE IF winner = "B"
                 THEN [a_wins |-> st.a_wins, b_wins |-> st.b_wins + 1, total |-> st.total + 1,
                       winner_display |-> Append(st.winner_display, <<ticker_b, "->">>)]
                 ELSE [a_wins |-> st.a_wins, b_wins |-> st.b_wins,
                       total |-> IF a_val # None \/ b_val # None
                                 THEN st.total + 1 ELSE st.total,
                       winner_display |-> Append(st.winner_display, <<"Tie">>)]
         IN  PanelRows(next, Tail(metrics), response, ticker_a, ticker_b)

\* mutant: what the first ticker did not win is counted for the second
display_panel_RestToB(metrics, response, ticker_a, ticker_b) ==
    LET st == PanelRows([a_wins |-> 0, b_wins |-> 0, total |-> 0, winner_display |-> <<>>],
                        metrics, response, ticker_a, ticker_b)
        rest == st.total - st.a_wins
    IN  [winner_display |-> st.winner_display,
         summary  |-> IF st.a_wins > rest THEN <<ticker_a, st.a_wins, rest>>
                      ELSE IF rest > st.a_wins THEN <<ticker_b, rest, st.a_wins>>
                      ELSE <<"Tied", st.a_wins, rest>>,
         returned |-> <<st.a_wins, rest>>]

\* the rows printed, the summary line and the returned (a_wins, b_wins)
display_panel(metrics, response, ticker_a, ticker_b) ==
    LET st == PanelRows([a_wins |-> 0, b_wins |-> 0, total |-> 0, winner_display |-> <<>>],
                        metrics, response, ticker_a, ticker_b)
    IN  [winner_display |-> st.winner_display,
         summary  |-> IF st.a_wins > st.b_wins THEN <<ticker_a, st.a_wins, st.b_wins>>
                      ELSE IF st.b_wins > st.a_wins THEN <<ticker_b, st.b_wins, st.a_wins>>
                      ELSE <<"Tied", st.a_wins, st.b_wins>>,
         returned |-> <<st.a_wins, st.b_wins>>]

\* display_verdict: the subject of the Valuation line and of the Quality line
display_verdict(ticker_a, ticker_b, val_a_wins, val_b_wins, qual_a_wins, qual_b_wins) ==
    [valuation |-> IF val_a_wins > val_b_wins THEN ticker_a
                   ELSE IF val_b_wins > val_a_wins THEN ticker_b
                   ELSE "Tied",
     quality   |-> IF qual_a_wins > qual_b_wins THEN ticker_a
                   ELSE IF qual_b_wins > qual_a_wins THEN ticker_b
                   ELSE "Tied"]

\* build_comparison_data: the loop over the metrics of one panel
RECURSIVE PanelData(_, _, _, _, _)
PanelData(panel, metrics, response, ticker_a, ticker_b) ==
    IF metrics = <<>> THEN panel
    ELSE LET metric_id == Head(metrics)[2]
             a_val     == extract_metric_showdown(response, ticker_a, metric_id)
             b_val     == extract_metric_showdown(response, ticker_b, metric_id)
             winner    == compare_metric(a_val, b_val, Head(metrics)[3])
             score     == IF winner = "A" THEN [panel.score EXCEPT ![ticker_a] = @ + 1]
                          ELSE IF winner = "B" THEN [panel.score EXCEPT ![ticker_b] = @ + 1]
                          ELSE panel.score
             entry     == [id |-> metric_id, a |-> a_val, b |-> b_val,
                           winner |-> IF winner = "A" THEN ticker_a
                                      ELSE IF winner = "B" THEN ticker_b ELSE "tie"]
         IN  PanelData([metrics |-> Append(panel.metrics, entry), score |-> score],
                       Tail(metrics), response, ticker_a, ticker_b)

build_comparison_data(response, ticker_a, ticker_b) ==
    LET empty     == [metrics |-> <<>>, score |-> [t \in {ticker_a, ticker_b} |-> 0]]
        valuation == PanelData(empty, VALUATION_METRICS, response, ticker_a, ticker_b)
        quality   == PanelData(empty, SHOWDOWN_QUALITY_METRICS, response, ticker_a, ticker_b)
        val       == valuation.score
        qual      == quality.score
    IN  [tickers |-> <<ticker_a, ticker_b>>,
         panels  |-> [valuation |-> valuation, quality |-> quality],
         verdict |-> [valuation_winner |->
                          IF val[ticker_a] > val[ticker_b] THEN ticker_a
                          ELSE IF val[ticker_b] > val[ticker_a] THEN ticker_b ELSE "tie",
                      quality_winner |->
                          IF qual[ticker_a] > qual[ticker_b] THEN ticker_a
                          ELSE IF qual[ticker_b] > qual[ticker_a] THEN ticker_b ELSE "tie"]]

\* a company of the payload, written as the row of its seven base values in
\* the order of the two metric lists; an absent value is a missing metric
ShowdownMetricIds ==
    [i \in 1..7 |-> IF i <= 4 THEN VALUATION_METRICS[i][2]
                    ELSE SHOWDOWN_QUALITY_METRICS[i - 4][2]]

ShowdownCompany(row) ==
    [metrics |-> [m \in {ShowdownMetricIds[i] : i \in {j \in 1..7 : row[j] # None}} |->
                     LET col == CHOOSE i \in 1..7 : ShowdownMetricIds[i] = m
                     IN  [values |-> <<Entry(None, row[col])>>]]]

ShowdownRows ==
    {v \o q :
        v \in {<<None, None, None, None>>, <<Some(1), Some(1), Some(1), Some(1)>>,
               <<Some(2), Some(1), Some(1), Some(1)>>, <<Some(1), None, Some(2), None>>,
               <<None, Some(2), None, Some(1)>>, <<Some(2), Some(2), Some(2), Some(2)>>},
        q \in {<<None, None, None>>, <<Some(1), Some(1), Some(1)>>,
               <<Some(2), Some(1), Some(2)>>, <<None, Some(2), None>>}}

PanelsLocals == [table |-> <<>>, json |-> <<>>]

\* the table mode and the --json mode of main after the checks, on one payload
Panels ==
    /\ script = "panels" /\ pc = "call"
    /\ LET valuation == display_panel(VALUATION_METRICS, env.api_data, env.stock_a, env.stock_b)
           quality   == display_panel(SHOWDOWN_QUALITY_METRICS, env.api_data,
                                      env.stock_a, env.stock_b)
       IN  locals' = [table |-> [valuation |-> valuation,
                                 quality   |-> quality,
                                 verdict   |-> display_verdict(env.stock_a, env.stock_b,
                                     valuation.returned[1], valuation.returned[2],
                                     quality.returned[1], quality.returned[2])],
                      json  |-> build_comparison_data(env.api_data, env.stock_a, env.stock_b)]
    /\ pc' = "done"
    /\ UNCHANGED <<script, env, calls, printed, exit_status, db, notRun>>

\* a payload that holds both tickers, as main has checked
InitPanels ==
    /\ script = "panels" /\ pc = "call"
    /\ \E row_a \in ShowdownRows, row_b \in ShowdownRows :
           env = [stock_a |-> "NVDA", stock_b |-> "AMD",
                  api_data |-> [data |-> [t \in {"NVDA", "AMD"} |->
                      ShowdownCompany(IF t = "NVDA" THEN row_a ELSE row_b)]]]
    /\ locals = PanelsLocals

InitShowdown ==
    \/ InitPanels
    \/ /\ script = "showdown" /\ pc = "args"
       /\ env \in [args : {<<>>, <<"nvda">>, <<"nvda", "amd">>, <<"NVDA", "nvda">>,
                           <<"amd", "amd">>, <<"nvda", "amd", "intc">>},
                   json : BOOLEAN, HAS_YFINANCE : BOOLEAN]
       /\ locals = ShowdownLocals
    \/ /\ script = "pulse" /\ pc = "args"
       /\ env \in [args : {<<>>, <<"nvda">>, <<"nvda", "amd">>},
                   json : BOOLEAN, dry_run : BOOLEAN, api_key : BOOLEAN]
       /\ locals = PulseLocals

NextShowdown ==
    \/ Showdown_Usage
    \/ Showdown_Args
    \/ Showdown_Self
    \/ Showdown_RequestFails
    \/ Showdown_Request
    \/ Showdown_NoData
    \/ Showdown_NoTicker
    \/ Showdown_Json
    \/ Showdown_Checked
    \/ Showdown_YFinance
    \/ Showdown_YFinanceDone
    \/ Showdown_Display
    \/ Panels
    \/ Pulse_Usage
    \/ Pulse_Args
    \/ Pulse_DryRun
    \/ Pulse_RequestFails
    \/ Pulse_Request
    \/ Pulse_NoData
    \/ Pulse_NoTicker
    \/ Pulse_Display

(***************************************************************************)
(* labs/04-stock-screener/screener.py: main                                *)
(* Tickers are numbered; a company carries one metric (pe_ratio), with or  *)
(* without a value.                                                        *)
(***************************************************************************)
BATCH_SIZE == 100

DEFAULT_COUNT == 50

Min(a, b) == IF a < b THEN a ELSE b

\* merged.update(batch_data)
Update(merged, batch_data) ==
    [t \in DOMAIN merged \cup DOMAIN batch_data |->
        IF t \in DOMAIN batch_data THEN batch_data[t] ELSE merged[t]]

\* the "data" of the 200 responses to a request for the tickers lo..hi: all of
\* them, all but the first, or none; all with a PE or all without
BatchData(lo, hi) ==
    {[t \in held |-> PeCompany(cell)] :
        held \in {lo..hi, (lo + 1)..hi, {}},
        cell \in {[kind |-> "nometric", pe |-> 0], [kind |-> "novalues", pe |-> 0],
                  [kind |-> "value", pe |-> 183]}}

\* mutant: every returned ticker gets a record, valued or not
Scored_AllReturned(data) == DOMAIN data

\* the tickers of the records score_stocks returns: those with a base value
\* for at least one of the metrics
Scored(data) ==
    {t \in DOMAIN data :
        \E i \in 1..Len(ALL_METRIC_IDS) : extract_metric(data, t, ALL_METRIC_IDS[i]) # None}

ScreenerLocals ==
    [ticker_count |-> 0, credits |-> 0, tickers |-> 0, i |-> 0, requests |-> <<>>,
     api_data |-> EmptyDict, results |-> {}, total_screened |-> 0]

\* parse_args: --help prints the usage and exits
Screener_Help ==
    /\ script = "screener" /\ pc = "parse_args"
    /\ env.help
    /\ Exit(0, "Usage: python screener.py [OPTIONS]")
    /\ UNCHANGED <<script, env, locals, calls, db, notRun>>

\* main, step 1: the ticker count, capped for a guest who gave no --tickers
TickerCount(e) ==
    IF e.tickers > 0 THEN e.tickers
    ELSE IF ~e.api_key /\ e.count > GUEST_MAX_TICKERS THEN GUEST_MAX_TICKERS
    ELSE e.count

Screener_TickerCount ==
    /\ script = "screener" /\ pc = "parse_args"
    /\ ~env.help
    /\ locals' = [locals EXCEPT !.ticker_count = TickerCount(env)]
    /\ pc' = "main"
    /\ UNCHANGED <<script, env, calls, printed, exit_status, db, notRun>>

\* mutant: the dry run is noticed only after the universe was fetched
Screener_DryRun_AfterFetch ==
    /\ script = "screener" /\ pc = "main"
    /\ env.dry_run
    /\ calls' = Append(calls, Call("api", "200", TRUE))
    /\ DryRun(locals.ticker_count * Len(ALL_METRIC_IDS) * 1)
    /\ UNCHANGED <<script, env, db, notRun>>

Screener_DryRun ==
    /\ script = "screener" /\ pc = "main"
    /\ env.dry_run
    /\ DryRun(locals.ticker_count * Len(ALL_METRIC_IDS) * 1)
    /\ UNCHANGED <<script, env, calls, db, notRun>>

\* --tickers: the custom list is screened
Screener_Tickers ==
    /\ script = "screener" /\ pc = "main"
    /\ ~env.dry_run /\ env.tickers > 0
    /\ locals' = [locals EXCEPT !.tickers = env.tickers]
    /\ pc' = "fetch_metrics"
    /\ UNCHANGED <<script, env, calls, printed, exit_status, db, notRun>>

Screener_UniverseFails ==
    /\ script = "screener" /\ pc = "main"
    /\ ~env.dry_run /\ env.tickers = 0
    /\ \E failure \in ApiFailures :
        /\ calls' = Append(calls, Call("api", failure, FALSE))
        /\ Exit(1, "Error: API")
    /\ UNCHANGED <<script, env, locals, db, notRun>>

\* fetch_universe answers with up to ticker_count companies
Screener_Universe ==
    /\ script = "screener" /\ pc = "main"
    /\ ~env.dry_run /\ env.tickers = 0
    /\ \E n \in {0, 1, locals.ticker_count} :
           locals' = [locals EXCEPT !.tickers = n]
    /\ calls' = Append(calls, Call("api", "200", TRUE))
    /\ pc' = "universe"
    /\ UNCHANGED <<script, env, printed, exit_status, db, notRun>>

Screener_NoUniverse ==
    /\ script = "screener" /\ pc = "universe"
    /\ locals.tickers = 0
    /\ Exit(1, "Error: No companies returned from universe.")
    /\ UNCHANGED <<script, env, locals, calls, db, notRun>>

Screener_GotUniverse ==
    /\ script = "screener" /\ pc = "universe"
    /\ locals.tickers > 0
    /\ pc' = "fetch_metrics"
    /\ UNCHANGED <<script, env, locals, calls, printed, exit_status, db, notRun>>

\* fetch_metrics: one request of the loop; _handle_error exits on any status
\* but 200, the except clauses on a connection failure or timeout
Screener_BatchFails ==
    /\ script = "screener" /\ pc = "fetch_metrics"
    /\ locals.i < locals.tickers
    /\ \E failure \in ApiFailures :
        /\ calls' = Append(calls, Call("api", failure, FALSE))
        /\ Exit(1, "Error: API")
    /\ locals' = [locals EXCEPT !.requests = Append(@,
           [lo |-> locals.i + 1, hi |-> Min(locals.i + BATCH_SIZE, locals.tickers),
            data |-> EmptyDict])]
    /\ UNCHANGED <<script, env, db, notRun>>

Screener_Batch ==
    /\ script = "screener" /\ pc = "fetch_metrics"
    /\ locals.i < locals.tickers
    /\ \E batch_data \in BatchData(locals.i + 1, Min(locals.i + BATCH_SIZE, locals.tickers)) :
           locals' = [locals EXCEPT
               !.requests = Append(@,
                   [lo |-> locals.i + 1, hi |-> Min(locals.i + BATCH_SIZE, locals.tickers),
                    data |-> batch_data]),
               !.api_data = Update(@, batch_data),
               !.i = @ + BATCH_SIZE]
    /\ calls' = Append(calls, Call("api", "200", TRUE))
    /\ UNCHANGED <<script, env, pc, printed, exit_status, db, notRun>>

Screener_NoMetricData ==
    /\ script = "screener" /\ pc = "fetch_metrics"
    /\ locals.i >= locals.tickers
    /\ locals.api_data = EmptyDict
    /\ Exit(1, "Error: No metric data returned.")
    /\ UNCHANGED <<script, env, locals, calls, db, notRun>>

Screener_NoResults ==
    /\ script = "screener" /\ pc = "fetch_metrics"
    /\ locals.i >= locals.tickers
    /\ locals.api_data # EmptyDict
    /\ Scored(locals.api_data) = {}
    /\ Exit(1, "Error: No stocks had enough data to score.")
    /\ UNCHANGED <<script, env, locals, calls, db, notRun>>

Screener_Display ==
    /\ script = "screener" /\ pc = "fetch_metrics"
    /\ locals.i >= locals.tickers
    /\ Scored(locals.api_data) # {}
    /\ locals' = [locals EXCEPT !.results = Scored(locals.api_data),
                                !.total_screened = locals.tickers]
    /\ Exit(0, "RESULTS")
    /\ UNCHANGED <<script, env, calls, db, notRun>>

InitScreener ==
    /\ script = "screener" /\ pc = "parse_args"
    /\ env \in [api_key : BOOLEAN, dry_run : BOOLEAN, help : BOOLEAN,
                tickers : {0, 1, 2, GUEST_MAX_TICKERS + 1, BATCH_SIZE + 1},
                count : {2, GUEST_MAX_TICKERS + 1, DEFAULT_COUNT}]
    /\ locals = ScreenerLocals

NextScreener ==
    \/ Screener_Help
    \/ Screener_TickerCount
    \/ Screener_DryRun
    \/ Screener_Tickers
    \/ Screener_UniverseFails
    \/ Screener_Universe
    \/ Screener_NoUniverse
    \/ Screener_GotUniverse
    \/ Screener_BatchFails
    \/ Screener_Batch
    \/ Screener_NoMetricData
    \/ Screener_NoResults
    \/ Screener_Display

(***************************************************************************)
(* labs/10-enterprise-screener/sync_service.py                             *)
(* An exception nobody catches (ValueError, httpx.HTTPStatusError, a       *)
(* timeout, an error of the datastore client) ends the process with a      *)
(* traceback and status 1.                                                 *)
(***************************************************************************)
Raise(exception) ==
    /\ locals' = [locals EXCEPT !.raised = exception]
    /\ Exit(1, "Traceback")

\* the bodies of a 200 response of the sync endpoint
SyncCompany(ticker, metrics) == [ticker |-> ticker, company_name |-> ticker, metrics |-> metrics]

SyncResponses ==
    [sync_id : {7},
     credits : {EmptyDict, [used |-> 100, remaining |-> 900]},
     data : {<<>>,
             <<SyncCompany("AAPL", <<>>)>>,
             <<SyncCompany("AAPL", <<Pair("pe_ratio", 183)>>)>>,
             <<SyncCompany("AAPL", <<Pair("pe_ratio", 183)>>),
               SyncCompany("MSFT", <<Pair("pe_ratio", 251), Pair("roic", 3)>>)>>}]

\* companies_data and metrics_data, built by the loop over data["data"]
CompaniesData(data) ==
    [i \in 1..Len(data) |-> [ticker |-> data[i].ticker, company_name |-> data[i].company_name]]

RECURSIVE MetricsData(_)
MetricsData(data) ==
    IF data = <<>> THEN <<>>
    ELSE [i \in 1..Len(Head(data).metrics) |->
             [ticker |-> Head(data).ticker,
              metric_id |-> Head(data).metrics[i].k,
              value |-> Head(data).metrics[i].v]]
         \o MetricsData(Tail(data))

\* table.upsert(rows): a row replaces the stored row that has its key
Upsert(table, rows, key) ==
    {r \in table : \A i \in DOMAIN rows : \E column \in key : r[column] # rows[i][column]}
    \cup {rows[i] : i \in DOMAIN rows}

\* get_last_sync_timestamp, on the rows of sync_log (synced_at is the row's position)
LastSync(sync_log) ==
    LET ok == {i \in DOMAIN sync_log : sync_log[i].status = "success"}
    IN  IF ok = {} THEN None ELSE Some(CHOOSE i \in ok : \A j \in ok : j <= i)

SyncLocals ==
    [delta_since |-> None, request_body |-> EmptyDict, data |-> EmptyDict,
     companies_data |-> <<>>, metrics_data |-> <<>>, raised |-> ""]

\* __main__ with --check-status: check_status sends its request whatever
\* API_KEY is; without a key the API answers 401
Sync_CheckStatusFails ==
    /\ script = "sync" /\ pc = "main"
    /\ env.check_status
    /\ \E failure \in IF env.api_key THEN ApiFailures ELSE {"401"} :
           calls' = Append(calls, Call("api", failure, FALSE))
    /\ Raise("HTTPError")
    /\ UNCHANGED <<script, env, db, notRun>>

Sync_CheckStatus ==
    /\ script = "sync" /\ pc = "main"
    /\ env.check_status /\ env.api_key
    /\ calls' = Append(calls, Call("api", "200", TRUE))
    /\ Exit(0, "Sync Status:")
    /\ UNCHANGED <<script, env, locals, db, notRun>>

\* parser.error exits with status 2
Sync_NoMetrics ==
    /\ script = "sync" /\ pc = "main"
    /\ ~env.check_status /\ ~env.metrics
    /\ Exit(2, "error: --metrics is required for sync")
    /\ UNCHANGED <<script, env, locals, calls, db, notRun>>

\* --delta: get_last_sync_timestamp reads sync_log
Sync_LastSyncFails ==
    /\ script = "sync" /\ pc = "main"
    /\ ~env.check_status /\ env.metrics /\ env.delta
    /\ calls' = Append(calls, Call("datastore", "select sync_log", FALSE))
    /\ Raise("APIError")
    /\ UNCHANGED <<script, env, db, notRun>>

Sync_LastSync ==
    /\ script = "sync" /\ pc = "main"
    /\ ~env.check_status /\ env.metrics /\ env.delta
    /\ calls' = Append(calls, Call("datastore", "select sync_log", TRUE))
    /\ locals' = [locals EXCEPT !.delta_since = LastSync(db.sync_log)]
    /\ pc' = "sync_metrics"
    /\ UNCHANGED <<script, env, printed, exit_status, db, notRun>>

Sync_Full ==
    /\ script = "sync" /\ pc = "main"
    /\ ~env.check_status /\ env.metrics /\ ~env.delta
    /\ pc' = "sync_metrics"
    /\ UNCHANGED <<script, env, locals, calls, printed, exit_status, db, notRun>>

\* sync_metrics: the three checks it starts with
\* mutant: the test for both selectors is left out
ArgumentsValid_EitherOrBoth(e) ==
    /\ e.api_key
    /\ ~(e.top_n = None /\ e.tickers = None)

ArgumentsValid(e) ==
    /\ e.api_key
    /\ ~(e.top_n = None /\ e.tickers = None)
    /\ ~(e.top_n # None /\ e.tickers # None)

Sync_ValueError ==
    /\ script = "sync" /\ pc = "sync_metrics"
    /\ ~ArgumentsValid(env)
    /\ Raise("ValueError")
    /\ UNCHANGED <<script, env, calls, db, notRun>>

\* "if tickers:" and "elif top_n:" test the truth value of the argument
TruthOfList(argument) == argument # None /\ Len(argument[1]) > 0

TruthOfInt(argument) == argument # None /\ argument[1] # 0

\* request_body of sync_metrics
RequestBody(e, delta_since) ==
    ("format" :> "json") @@ ("metrics" :> <<"pe_ratio">>)
    @@ (IF delta_since # None THEN "delta_since" :> delta_since[1] ELSE EmptyDict)
    @@ (IF TruthOfList(e.tickers) THEN "tickers" :> e.tickers[1]
        ELSE IF TruthOfInt(e.top_n) THEN "top_n" :> e.top_n[1]
        ELSE EmptyDict)

\* httpx.post and response.raise_for_status()
Sync_RequestFails ==
    /\ script = "sync" /\ pc = "sync_metrics"
    /\ ArgumentsValid(env)
    /\ \E failure \in ApiFailures :
           calls' = Append(calls, Call("api", failure, FALSE))
    /\ locals' = [locals EXCEPT !.request_body = RequestBody(env, locals.delta_since),
                                !.raised = "HTTPError"]
    /\ Exit(1, "Traceback")
    /\ UNCHANGED <<script, env, db, notRun>>

Sync_Request ==
    /\ script = "sync" /\ pc = "sync_metrics"
    /\ ArgumentsValid(env)
    /\ \E body \in SyncResponses :
           locals' = [locals EXCEPT !.request_body = RequestBody(env, locals.delta_since),
                                    !.data = body]
    /\ calls' = Append(calls, Call("api", "200", TRUE))
    /\ pc' = "response"
    /\ UNCHANGED <<script, env, printed, exit_status, db, notRun>>

\* print(f"Credits used: {credits.get('used', 'N/A'):,}") cannot format the
\* default 'N/A' with ","
Sync_PrintFails ==
    /\ script = "sync" /\ pc = "response"
    /\ "used" \notin DOMAIN locals.data.credits
    /\ Raise("ValueError")
    /\ UNCHANGED <<script, env, calls, db, notRun>>

Sync_Process ==
    /\ script = "sync" /\ pc = "response"
    /\ "used" \in DOMAIN locals.data.credits
    /\ locals' = [locals EXCEPT !.companies_data = CompaniesData(locals.data.data),
                                !.metrics_data = MetricsData(locals.data.data)]
    /\ pc' = "upsert_companies"
    /\ UNCHANGED <<script, env, calls, printed, exit_status, db, notRun>>

\* if companies_data: supabase.table("companies").upsert(companies_data).execute()
\* mutant: the failed upsert is ignored and the run goes on
Sync_UpsertCompaniesFails_Swallowed ==
    /\ script = "sync" /\ pc = "upsert_companies"
    /\ locals.companies_data # <<>>
    /\ calls' = Append(calls, Call("datastore", "upsert companies", FALSE))
    /\ pc' = "upsert_metrics"
    /\ UNCHANGED <<script, env, locals, printed, exit_status, db, notRun>>

Sync_UpsertCompaniesFails ==
    /\ script = "sync" /\ pc = "upsert_companies"
    /\ locals.companies_data # <<>>
    /\ calls' = Append(calls, Call("datastore", "upsert companies", FALSE))
    /\ Raise("APIError")
    /\ UNCHANGED <<script, env, db, notRun>>

Sync_UpsertCompanies ==
    /\ script = "sync" /\ pc = "upsert_companies"
    /\ IF locals.companies_data # <<>>
       THEN /\ calls' = Append(calls, Call("datastore", "upsert companies", TRUE))
            /\ db' = [db EXCEPT !.companies = Upsert(@, locals.companies_data, {"ticker"})]
       ELSE UNCHANGED <<calls, db>>
    /\ pc' = "upsert_metrics"
    /\ UNCHANGED <<script, env, locals, printed, exit_status, notRun>>

\* if metrics_data: supabase.table("metrics_latest").upsert(metrics_data).execute()
Sync_UpsertMetricsFails ==
    /\ script = "sync" /\ pc = "upsert_metrics"
    /\ locals.metrics_data # <<>>
    /\ calls' = Append(calls, Call("datastore", "upsert metrics_latest", FALSE))
    /\ Raise("APIError")
    /\ UNCHANGED <<script, env, db, notRun>>

Sync_UpsertMetrics ==
    /\ script = "sync" /\ pc = "upsert_metrics"
    /\ IF locals.metrics_data # <<>>
       THEN /\ calls' = Append(calls, Call("datastore", "upsert metrics_latest", TRUE))
            /\ db' = [db EXCEPT !.metrics_latest =
                         Upsert(@, locals.metrics_data, {"ticker", "metric_id"})]
       ELSE UNCHANGED <<calls, db>>
    /\ pc' = "sync_log"
    /\ UNCHANGED <<script, env, locals, printed, exit_status, notRun>>

\* supabase.table("sync_log").insert(sync_log).execute()
Sync_LogFails ==
    /\ script = "sync" /\ pc = "sync_log"
    /\ calls' = Append(calls, Call("datastore", "insert sync_log", FALSE))
    /\ Raise("APIError")
    /\ UNCHANGED <<script, env, db, notRun>>

Sync_Log ==
    /\ script = "sync" /\ pc = "sync_log"
    /\ calls' = Append(calls, Call("datastore", "insert sync_log", TRUE))
    /\ db' = [db EXCEPT !.sync_log = Append(@,
                 [sync_id |-> locals.data.sync_id,
                  companies_count |-> Len(locals.companies_data),
                  metrics_count |-> Len(locals.metrics_data),
                  status |-> "success"])]
    /\ pc' = "return"
    /\ UNCHANGED <<script, env, locals, printed, exit_status, notRun>>

Sync_Return ==
    /\ script = "sync" /\ pc = "return"
    /\ Exit(0, "Sync complete!")
    /\ UNCHANGED <<script, env, locals, calls, db, notRun>>

\* the datastore before the run: empty, or left by an earlier sync of AAPL
EarlierDb ==
    [companies |-> {[ticker |-> "AAPL", company_name |-> "Apple"]},
     metrics_latest |-> {[ticker |-> "AAPL", metric_id |-> "pe_ratio", value |-> 200]},
     sync_log |-> <<[sync_id |-> 6, companies_count |-> 1, metrics_count |-> 1,
                     status |-> "success"]>>]

InitSync ==
    /\ script = "sync" /\ pc = "main"
    /\ env \in [api_key : BOOLEAN, check_status : BOOLEAN, metrics : BOOLEAN,
                delta : BOOLEAN,
                tickers : {None, Some(<<"AAPL", "MSFT">>)},
                top_n : {None, Some(0), Some(500)}]
    /\ locals = SyncLocals
    /\ db \in {EmptyDb, EarlierDb}

NextSync ==
    \/ Sync_CheckStatusFails
    \/ Sync_CheckStatus
    \/ Sync_NoMetrics
    \/ Sync_LastSyncFails
    \/ Sync_LastSync
    \/ Sync_Full
    \/ Sync_ValueError
    \/ Sync_RequestFails
    \/ Sync_Request
    \/ Sync_PrintFails
    \/ Sync_Process
    \/ Sync_UpsertCompaniesFails
    \/ Sync_UpsertCompanies
    \/ Sync_UpsertMetricsFails
    \/ Sync_UpsertMetrics
    \/ Sync_LogFails
    \/ Sync_Log
    \/ Sync_Return

(***************************************************************************)
(* labs/10-enterprise-screener/sync_service.py, run again and again        *)
(* against one datastore while time passes and the upstream data changes.  *)
(* Instants are integers; the client, the datastore and the API read the   *)
(* same clock.                                                             *)
(***************************************************************************)
Companies == {"AAPL"}

\* datetime.isoformat() of a UTC instant, and what the datastore gives back
\* for the stored text: the same instant with either spelling of the offset
isoformat(instant) == [instant |-> instant, offset |-> "+00:00"]

Offsets == {"+00:00", "Z"}

\* datetime.fromisoformat(text.replace("Z", "+00:00"))
fromisoformat(text) == text.instant

ReplaceZ(text) == [text EXCEPT !.offset = IF @ = "Z" THEN "+00:00" ELSE @]

\* the row of sync_log that get_last_sync_timestamp's query returns:
\* status "success", latest synced_at first, limit 1
LastSuccess_Oldest(sync_log) ==
    LET ok == {i \in DOMAIN sync_log : sync_log[i].status = "success"}
    IN  IF ok = {} THEN <<>>
        ELSE <<sync_log[CHOOSE i \in ok :
                   \A j \in ok : sync_log[i].synced_at.instant <= sync_log[j].synced_at.instant]>>

LastSuccess(sync_log) ==
    LET ok == {i \in DOMAIN sync_log : sync_log[i].status = "success"}
    IN  IF ok = {} THEN <<>>
        ELSE <<sync_log[CHOOSE i \in ok :
                   \A j \in ok : sync_log[j].synced_at.instant <= sync_log[i].synced_at.instant]>>

get_last_sync_timestamp(sync_log, offset) ==
    LET data == LastSuccess(sync_log)
    IN  IF data # <<>>
        THEN Some(fromisoformat(ReplaceZ([data[1].synced_at EXCEPT !.offset = offset])))
        ELSE None

\* request_body of sync_metrics, as far as delta_since goes
DeltaRequestBody(delta_since) ==
    IF delta_since # None
    THEN [format |-> "json", delta_since |-> isoformat(delta_since[1])]
    ELSE [format |-> "json"]

\* The API's answer: the companies updated at or after delta_since, all of
\* them without delta_since, each with the instant of its last update.
SyncAnswer(upstream, body) ==
    LET since == IF "delta_since" \in DOMAIN body THEN body.delta_since.instant ELSE 0
        held  == {c \in Companies : upstream[c] >= since}
    IN  [c \in held |-> upstream[c]]

DeltaLocals == [delta |-> FALSE, delta_since |-> None, data |-> <<>>, now |-> isoformat(0)]

NoHistory == [requests |-> <<>>, syncs |-> <<>>]

DeltaIdle ==
    /\ dl_clock = 0
    /\ dl_upstream = [c \in Companies |-> 0]
    /\ dl_db = [companies |-> <<>>, sync_log |-> <<>>]
    /\ dl_locals = DeltaLocals
    /\ dl_history = NoHistory
    /\ dl_runs = 0
    /\ dl_pc = "off"

\* time passes
Delta_Tick ==
    /\ dl_pc # "off"
    /\ dl_clock < MaxClock
    /\ dl_clock' = dl_clock + 1
    /\ UNCHANGED <<dl_upstream, dl_db, dl_locals, dl_history, dl_runs, dl_pc, notDelta>>

\* a company's data is updated upstream
Upstream_Update ==
    /\ dl_pc # "off"
    /\ \E c \in Companies :
        /\ dl_upstream[c] < dl_clock
        /\ dl_upstream' = [dl_upstream EXCEPT ![c] = dl_clock]
    /\ UNCHANGED <<dl_clock, dl_db, dl_locals, dl_history, dl_runs, dl_pc, notDelta>>

\* __main__: a run with or without --delta
Delta_Main ==
    /\ dl_pc = "idle"
    /\ dl_runs < MaxRuns
    /\ dl_runs' = dl_runs + 1
    /\ \E delta \in BOOLEAN :
        /\ dl_locals' = [DeltaLocals EXCEPT !.delta = delta]
        /\ dl_pc' = IF delta THEN "get_last_sync_timestamp" ELSE "sync_metrics"
    /\ UNCHANGED <<dl_clock, dl_upstream, dl_db, dl_history, notDelta>>

Delta_LastSync ==
    /\ dl_pc = "get_last_sync_timestamp"
    /\ \E offset \in Offsets :
           dl_locals' = [dl_locals EXCEPT
               !.delta_since = get_last_sync_timestamp(dl_db.sync_log, offset)]
    /\ dl_pc' = "sync_metrics"
    /\ UNCHANGED <<dl_clock, dl_upstream, dl_db, dl_history, dl_runs, notDelta>>

\* an exception of the datastore or of the API ends the run
Delta_Fails ==
    /\ dl_pc \in {"get_last_sync_timestamp", "sync_metrics", "upsert", "sync_log"}
    /\ dl_pc' = "idle"
    /\ UNCHANGED <<dl_clock, dl_upstream, dl_db, dl_locals, dl_history, dl_runs, notDelta>>

\* httpx.post and response.json()
Delta_Request ==
    /\ dl_pc = "sync_metrics"
    /\ LET body == DeltaRequestBody(dl_locals.delta_since)
       IN  /\ dl_locals' = [dl_locals EXCEPT !.data = SyncAnswer(dl_upstream, body)]
           /\ dl_history' = [dl_history EXCEPT !.requests =
                  Append(@, [delta |-> dl_locals.delta, body |-> body,
                             sync_log |-> dl_db.sync_log, produced |-> dl_clock,
                             returned |-> DOMAIN SyncAnswer(dl_upstream, body)])]
    /\ dl_pc' = "response"
    /\ UNCHANGED <<dl_clock, dl_upstream, dl_db, dl_runs, notDelta>>

\* now = datetime.now(timezone.utc).isoformat(), read after the response
Delta_Now ==
    /\ dl_pc = "response"
    /\ dl_locals' = [dl_locals EXCEPT !.now = isoformat(dl_clock)]
    /\ dl_pc' = "upsert"
    /\ UNCHANGED <<dl_clock, dl_upstream, dl_db, dl_history, dl_runs, notDelta>>

\* the upserts of companies and metrics_latest
Delta_Upsert ==
    /\ dl_pc = "upsert"
    /\ dl_db' = [dl_db EXCEPT !.companies =
           [c \in DOMAIN @ \cup DOMAIN dl_locals.data |->
               IF c \in DOMAIN dl_locals.data THEN dl_locals.data[c] ELSE @[c]]]
    /\ dl_pc' = "sync_log"
    /\ UNCHANGED <<dl_clock, dl_upstream, dl_locals, dl_history, dl_runs, notDelta>>

\* the insert into sync_log, with synced_at = now
Delta_Log ==
    /\ dl_pc = "sync_log"
    /\ dl_db' = [dl_db EXCEPT !.sync_log =
           Append(@, [status |-> "success", synced_at |-> dl_locals.now])]
    /\ dl_history' = [dl_history EXCEPT !.syncs =
           Append(@, [produced |-> dl_history.requests[Len(dl_history.requests)].produced,
                      synced_at |-> dl_locals.now.instant])]
    /\ dl_pc' = "idle"
    /\ UNCHANGED <<dl_clock, dl_upstream, dl_locals, dl_runs, notDelta>>

\* the datastore before the first run: a fresh one, or one whose log holds
\* one earlier sync, failed or successful
InitDelta ==
    /\ dl_clock = 0
    /\ dl_upstream = [c \in Companies |-> 0]
    /\ dl_db \in {[companies |-> <<>>, sync_log |-> log] :
                     log \in {<<>>} \cup {<<[status |-> status, synced_at |-> isoformat(0)]>> :
                                            status \in {"failed", "success"}}}
    /\ dl_locals = DeltaLocals
    /\ dl_history = NoHistory
    /\ dl_runs = 0
    /\ dl_pc = "idle"

NextDelta ==
    \/ Delta_Tick
    \/ Upstream_Update
    \/ Delta_Main
    \/ Delta_LastSync
    \/ Delta_Fails
    \/ Delta_Request
    \/ Delta_Now
    \/ Delta_Upsert
    \/ Delta_Log

(***************************************************************************)
(* Specifications.                                                         *)
(***************************************************************************)
InitRank ==
    /\ values \in ValueMaps
    /\ direction \in {"higher", "lower"}
    /\ ranks = EmptyDict
    /\ rk_pc = "call"
    /\ ScoreIdle
    /\ ExtractIdle
    /\ DiagnosisIdle
    /\ FormatIdle
    /\ RunIdle
    /\ DeltaIdle

InitScore ==
    /\ \E rows \in RowLists : api_data = Payload(rows)
    /\ quality_ranks = EmptyDict
    /\ value_ranks = EmptyDict
    /\ results = <<>>
    /\ cur = NoCur
    /\ sc_pc = "quality_ranks"
    /\ sc_i = 1
    /\ RankIdle
    /\ ExtractIdle
    /\ DiagnosisIdle
    /\ FormatIdle
    /\ RunIdle
    /\ DeltaIdle

InitExtract ==
    /\ ex_data \in ExtractInputs
    /\ ex_ticker \in {1, 2}
    /\ ex_metric \in {"roic", "pe_ratio"}
    /\ ex_out = [c \in Copies |-> None]
    /\ ex_pc = Copies
    /\ RankIdle
    /\ ScoreIdle
    /\ DiagnosisIdle
    /\ FormatIdle
    /\ RunIdle
    /\ DeltaIdle

InitDiagnosis ==
    /\ dg_data \in DiagnosisInputs
    /\ dg_ticker = 1
    /\ dg_out = NoDiagnosis
    /\ dg_pc = "call"
    /\ RankIdle
    /\ ScoreIdle
    /\ ExtractIdle
    /\ FormatIdle
    /\ RunIdle
    /\ DeltaIdle

InitFormat ==
    /\ fm_value \in FormatValues
    /\ fm_metric \in [format_value : {"roic", "pe_ratio"},
                     fmt_val : {"dividend_yield", "ev_ebitda"}]
    /\ fm_out = [f \in Formatters |-> <<>>]
    /\ fm_pc = Formatters
    /\ RankIdle
    /\ ScoreIdle
    /\ ExtractIdle
    /\ DiagnosisIdle
    /\ RunIdle
    /\ DeltaIdle

InitRun ==
    /\ \/ InitSync
       \/ (InitAlert \/ InitValidate \/ InitShowdown \/ InitScreener) /\ db = EmptyDb
    /\ Started
    /\ RankIdle
    /\ ScoreIdle
    /\ ExtractIdle
    /\ DiagnosisIdle
    /\ FormatIdle
    /\ DeltaIdle

NextRank == RankCall

NextScore ==
    \/ RankQualityMetric
    \/ RankValueMetric
    \/ SkipTicker
    \/ ScoreTicker
    \/ SortAndReturn

NextExtract ==
    \/ ExtractShowdown
    \/ ExtractPulse
    \/ ExtractScreener

SpecRank == InitRank /\ [][NextRank]_vars

SpecScore == InitScore /\ [][NextScore]_vars

SpecExtract == InitExtract /\ [][NextExtract]_vars

NextDiagnosis == ComputeDiagnosis

SpecDiagnosis == InitDiagnosis /\ [][NextDiagnosis]_vars

NextFormat == FormatPct \/ FormatRatio \/ FormatValue \/ FmtVal

SpecFormat == InitFormat /\ [][NextFormat]_vars

NextRun == NextAlert \/ NextValidate \/ NextShowdown \/ NextScreener \/ NextSync

SpecRun == InitRun /\ [][NextRun]_vars

InitSyncRuns ==
    /\ InitDelta
    /\ RankIdle
    /\ ScoreIdle
    /\ ExtractIdle
    /\ DiagnosisIdle
    /\ FormatIdle
    /\ RunIdle

SpecDelta == InitSyncRuns /\ [][NextDelta]_vars

Init == InitRank \/ InitScore \/ InitExtract \/ InitDiagnosis \/ InitFormat \/ InitRun \/ InitSyncRuns

Next == NextRank \/ NextScore \/ NextExtract \/ NextDiagnosis \/ NextFormat \/ NextRun \/ NextDelta

Spec == Init /\ [][Next]_vars

(***************************************************************************)
(* Properties of compute_percentile_ranks (checked under SpecRank).        *)
(***************************************************************************)
\* the entities of the argument map that hold a value
Present == {t \in 1..Len(values) : values[t] # None}

ValueOf(t) == values[t][1]

\* a is strictly better than b for the direction of the call
Better(a, b) == IF direction = "higher" THEN a > b ELSE a < b

IsBest(t) == \A u \in Present : ~Better(ValueOf(u), ValueOf(t))

IsWorst(t) == \A u \in Present : ~Better(ValueOf(t), ValueOf(u))

\* 0-indexed position of t in a stable sort that puts the best value last
StablePosition(t) ==
    Cardinality({u \in Present : Better(ValueOf(t), ValueOf(u))})
    + Cardinality({u \in Present : ValueOf(u) = ValueOf(t) /\ u < t})

Percentiles == {ranks[t] : t \in DOMAIN ranks}

RankReturned == rk_pc = "done" /\ Present # {}

\* C1, as claimed: every percentile of a non-empty map lies in [0, 100]; a
\* single valued entity gets 50; otherwise EVERY entity holding the best value
\* gets 100 and EVERY entity holding the worst value gets 0.
C1_EveryBestGets100 ==
    RankReturned =>
        \A t \in Present :
            /\ t \in DOMAIN ranks
            /\ ranks[t] >= 0 /\ ranks[t] <= 100 * Scale
            /\ Cardinality(Present) = 1 => ranks[t] = 50 * Scale
            /\ Cardinality(Present) > 1 =>
                   /\ IsBest(t) => ranks[t] = 100 * Scale
                   /\ IsWorst(t) => ranks[t] = 0

\* C1, amended: every percentile of a non-empty map lies in [0, 100]; a single
\* valued entity gets 50; otherwise exactly one entity gets 100, namely the
\* holder of the best value that comes last in the map's order, and exactly
\* one gets 0, namely the holder of the worst value that comes first.
C1_OneBestGets100 ==
    RankReturned =>
        \A t \in Present :
            /\ t \in DOMAIN ranks
            /\ ranks[t] >= 0 /\ ranks[t] <= 100 * Scale
            /\ Cardinality(Present) = 1 => ranks[t] = 50 * Scale
            /\ Cardinality(Present) > 1 =>
                   /\ ranks[t] = 100 * Scale
                        <=> (IsBest(t) /\ \A u \in Present : IsBest(u) => u <= t)
                   /\ ranks[t] = 0
                        <=> (IsWorst(t) /\ \A u \in Present : IsWorst(u) => u >= t)

\* C1 witness: a "lower" call returned where two of three entities tie for the
\* best value.
C1_Witness ==
    /\ RankReturned /\ direction = "lower" /\ Cardinality(Present) >= 3
    /\ \E t, u \in Present : t # u /\ IsBest(t) /\ IsBest(u)
    /\ \E t \in Present : ~IsBest(t)

\* C2, as claimed: absent values are dropped, the entity at stable sorted
\* position i of n gets i/(n-1)*100, and the n percentiles returned are the n
\* distinct values 0, 100/(n-1), ..., 100 - for every n.
C2_AlwaysZeroToHundred ==
    RankReturned =>
        LET n == Cardinality(Present)
        IN  /\ DOMAIN ranks = Present
            /\ \A t \in Present : ranks[t] * (n - 1) = StablePosition(t) * 100 * Scale
            /\ Cardinality(Percentiles) = n
            /\ 0 \in Percentiles /\ 100 * Scale \in Percentiles

\* C2, amended: the same for n >= 2; for n = 1 the one percentile is 50.
C2_PositionPercentile ==
    RankReturned =>
        LET n == Cardinality(Present)
        IN  /\ DOMAIN ranks = Present
            /\ n = 1 => Percentiles = {50 * Scale}
            /\ n > 1 =>
                   /\ \A t \in Present :
                          ranks[t] * (n - 1) = StablePosition(t) * 100 * Scale
                   /\ Cardinality(Percentiles) = n
                   /\ 0 \in Percentiles /\ 100 * Scale \in Percentiles

\* C2 witness: a call returned with an absent value and two tied entities that
\* got different percentiles.
C2_Witness ==
    /\ RankReturned /\ Present # 1..Len(values)
    /\ \E t, u \in Present :
           t < u /\ ValueOf(t) = ValueOf(u) /\ ranks[t] < ranks[u]

\* C3: the keys of the returned map are exactly the entities with a value; an
\* empty or all-absent map gives the empty map.
C3_KeysAreValued ==
    rk_pc = "done" =>
        /\ DOMAIN ranks = Present
        /\ Present = {} => ranks = EmptyDict

\* C3 witness: a call on a map of several entities, all absent, returned.
C3_Witness ==
    rk_pc = "done" /\ Len(values) >= 2 /\ Present = {} /\ ranks = EmptyDict

(***************************************************************************)
(* Properties of score_stocks (checked under SpecScore).                   *)
(***************************************************************************)
QualityIds == {QUALITY_METRICS[i][2] : i \in 1..Len(QUALITY_METRICS)}

ValueIds == {VALUE_METRICS[i][2] : i \in 1..Len(VALUE_METRICS)}

\* the payload holds a non-null base (dimension-less) value of metric m for t
HasBaseValue(t, m) ==
    /\ t \in DOMAIN api_data
    /\ "metrics" \in DOMAIN api_data[t]
    /\ m \in DOMAIN api_data[t].metrics
    /\ "values" \in DOMAIN api_data[t].metrics[m]
    /\ \E i \in DOMAIN api_data[t].metrics[m].values :
           /\ api_data[t].metrics[m].values[i].dimension = None
           /\ api_data[t].metrics[m].values[i].value # None

HasQuality(t) == \E m \in QualityIds : HasBaseValue(t, m)

HasValue(t) == \E m \in ValueIds : HasBaseValue(t, m)

\* the scoring loop has just appended the record of ticker cur.ticker
JustScored ==
    /\ sc_pc \in {"score", "sort"} /\ cur.ticker # 0
    /\ results # <<>> /\ results[Len(results)].ticker = cur.ticker

\* the unrounded composite of ticker t, from the rank tables of the run
RawComposite(t) == TickerScore(api_data, quality_ranks, value_ranks, t).composite

RECURSIVE SumOver(_, _, _)
SumOver(rankmaps, ms, t) ==
    IF ms = {} THEN 0
    ELSE LET m == CHOOSE x \in ms : TRUE
         IN  rankmaps[m][t] + SumOver(rankmaps, ms \ {m}, t)

\* C4: the composite of a scored entity is 0.6*quality_avg + 0.4*value_avg when
\* it has data in both categories, and the other category's average alone when
\* one category has no data; 80 and 50 give 68.
C4_CompositeWeights ==
    /\ JustScored =>
           /\ (HasQuality(cur.ticker) /\ HasValue(cur.ticker)) =>
                  10 * cur.composite = 6 * cur.q_avg + 4 * cur.v_avg
           /\ ~HasQuality(cur.ticker) => cur.composite = cur.v_avg
           /\ ~HasValue(cur.ticker) => cur.composite = cur.q_avg
    /\ Composite(<<80 * Scale>>, <<50 * Scale>>, 80 * Scale, 50 * Scale) = 68 * Scale

\* C4 witness: an entity with data in both categories and unequal averages has
\* been scored after an entity without value data.
C4_Witness ==
    /\ JustScored /\ HasQuality(cur.ticker) /\ HasValue(cur.ticker)
    /\ cur.q_avg # cur.v_avg /\ cur.q_avg > 0 /\ cur.v_avg > 0
    /\ \E i \in 1..Len(results) : ~HasValue(results[i].ticker)

\* C5: the composite and both averages of every scored entity, as computed and
\* as reported, lie in [0, 100].
C5_ScoresInRange ==
    /\ JustScored =>
           /\ cur.composite >= 0 /\ cur.composite <= 100 * Scale
           /\ cur.q_avg >= 0 /\ cur.q_avg <= 100 * Scale
           /\ cur.v_avg >= 0 /\ cur.v_avg <= 100 * Scale
    /\ \A i \in 1..Len(results) :
           /\ results[i].scores.composite >= 0 /\ results[i].scores.composite <= 1000
           /\ results[i].scores.quality >= 0 /\ results[i].scores.quality <= 1000
           /\ results[i].scores.value >= 0 /\ results[i].scores.value <= 1000

\* C5 witness: the returned list holds a record at 100 and a record at 0.
C5_Witness ==
    /\ sc_pc = "done"
    /\ \E i, j \in 1..Len(results) :
           /\ results[i].scores.composite = 1000 /\ results[i].scores.quality = 1000
           /\ results[j].scores.composite = 0

\* C6: the signal of a scored entity is BALANCED when both averages are >= 70,
\* QUALITY when only quality_avg is, VALUE when only value_avg is, and empty
\* otherwise; 80/50 gives QUALITY and 90/75 BALANCED.
C6_SignalLabel ==
    /\ JustScored =>
           LET q70 == cur.q_avg >= 70 * Scale
               v70 == cur.v_avg >= 70 * Scale
               sig == results[Len(results)].signal
           IN  /\ (q70 /\ v70) => sig = "BALANCED"
               /\ (q70 /\ ~v70) => sig = "QUALITY"
               /\ (~q70 /\ v70) => sig = "VALUE"
               /\ (~q70 /\ ~v70) => sig = ""
    /\ Signal(80 * Scale, 50 * Scale) = "QUALITY"
    /\ Signal(90 * Scale, 75 * Scale) = "BALANCED"
    /\ Signal(70 * Scale - 1, 70 * Scale) = "VALUE"
    /\ Signal(70 * Scale - 1, 70 * Scale - 1) = ""

\* C6 witness: the returned list holds all four signals.
C6_Witness ==
    /\ sc_pc = "done"
    /\ \A sig \in {"BALANCED", "QUALITY", "VALUE", ""} :
           \E i \in 1..Len(results) : results[i].signal = sig

\* C7: the returned list holds exactly one record for every entity with a
\* non-absent quality or value metric, and none for any other entity.
C7_OneRecordPerValuedEntity ==
    sc_pc = "done" =>
        LET valued == {t \in DOMAIN api_data : HasQuality(t) \/ HasValue(t)}
        IN  /\ {results[i].ticker : i \in 1..Len(results)} = valued
            /\ Len(results) = Cardinality(valued)

\* C7 witness: a list was returned for a payload with an entity without any
\* data, an entity with quality data only and an entity with value data only.
C7_Witness ==
    /\ sc_pc = "done"
    /\ \E t, u, w \in DOMAIN api_data :
           /\ ~HasQuality(t) /\ ~HasValue(t)
           /\ HasQuality(u) /\ ~HasValue(u)
           /\ ~HasQuality(w) /\ HasValue(w)

\* C8, as claimed: the returned list is in descending order of the composite as
\* computed (before rounding), equal composites in arrival order.
C8_SortedByRawComposite ==
    sc_pc = "done" =>
        \A i, j \in 1..Len(results) :
            i < j =>
                \/ RawComposite(results[i].ticker) > RawComposite(results[j].ticker)
                \/ /\ RawComposite(results[i].ticker) = RawComposite(results[j].ticker)
                   /\ results[i].ticker < results[j].ticker

\* C8, amended: the returned list is in descending order of the reported
\* composite (rounded to one decimal), equal reported composites in arrival
\* order.
C8_SortedByReportedComposite ==
    sc_pc = "done" =>
        \A i, j \in 1..Len(results) :
            i < j =>
                \/ results[i].scores.composite > results[j].scores.composite
                \/ /\ results[i].scores.composite = results[j].scores.composite
                   /\ results[i].ticker < results[j].ticker

\* C8 witness: a returned list in which the sort moved a later entity to the
\* front and two records with different composites share a reported composite.
C8_Witness ==
    /\ sc_pc = "done"
    /\ \E i, j \in 1..Len(results) : i < j /\ results[i].ticker > results[j].ticker
    /\ \E i, j \in 1..Len(results) :
           /\ i < j
           /\ results[i].scores.composite = results[j].scores.composite
           /\ RawComposite(results[i].ticker) # RawComposite(results[j].ticker)

\* C9: quality_avg is the mean of the entity's percentile ranks over exactly
\* the quality metrics it has a value for, and value_avg likewise; a missing
\* metric adds no zero to the mean, nor to the reported score.
C9_MeanOverPresentMetrics ==
    JustScored =>
        LET t  == cur.ticker
            qs == {m \in QualityIds : HasBaseValue(t, m)}
            vs == {m \in ValueIds : HasBaseValue(t, m)}
            r  == results[Len(results)]
        IN  /\ qs # {} => cur.q_avg * Cardinality(qs) = SumOver(quality_ranks, qs, t)
            /\ vs # {} => cur.v_avg * Cardinality(vs) = SumOver(value_ranks, vs, t)
            /\ r.scores.quality = Round1(cur.q_avg)
            /\ r.scores.value = Round1(cur.v_avg)
            /\ qs = {} => r.scores.composite = Round1(cur.v_avg)
            /\ vs = {} => r.scores.composite = Round1(cur.q_avg)

\* C9 witness: an entity was scored that lacks one quality metric and one
\* value metric and has non-zero averages.
C9_Witness ==
    /\ JustScored
    /\ \E m \in QualityIds : ~HasBaseValue(cur.ticker, m)
    /\ \E m \in ValueIds : ~HasBaseValue(cur.ticker, m)
    /\ cur.q_avg > 0 /\ cur.v_avg > 0

(***************************************************************************)
(* Properties of extract_metric (checked under SpecExtract).               *)
(***************************************************************************)
\* the recorded values of the requested metric of the requested entity, empty
\* when the entity, the metric or the list is missing
RecordedValues ==
    IF /\ ex_ticker \in DOMAIN ex_data
       /\ "metrics" \in DOMAIN ex_data[ex_ticker]
       /\ ex_metric \in DOMAIN ex_data[ex_ticker].metrics
       /\ "values" \in DOMAIN ex_data[ex_ticker].metrics[ex_metric]
    THEN ex_data[ex_ticker].metrics[ex_metric].values
    ELSE <<>>

MinOf(S) == CHOOSE i \in S : \A j \in S : i <= j

\* value of the first entry whose dimension tag is unset
FirstUnqualified ==
    LET idx == {i \in DOMAIN RecordedValues : RecordedValues[i].dimension = None}
    IN  IF idx = {} THEN None ELSE RecordedValues[MinOf(idx)].value

\* value of the first entry whose dimension tag is unset and whose value is set
FirstUnqualifiedPresent ==
    LET idx == {i \in DOMAIN RecordedValues :
                    RecordedValues[i].dimension = None /\ RecordedValues[i].value # None}
    IN  IF idx = {} THEN None ELSE RecordedValues[MinOf(idx)].value

AllExtracted == ex_pc = {}

\* C10, as claimed: each copy returns the value of the first entry whose
\* dimension tag is unset (absent when there is none), and the copies agree.
C10_FirstUnqualifiedEntry ==
    AllExtracted => \A c \in Copies : ex_out[c] = FirstUnqualified

\* C10, amended: each copy returns the value of the first entry whose dimension
\* tag is unset and whose value is not null (absent when there is none, or when
\* the entity or the metric is missing), and the copies agree.
C10_FirstUnqualifiedValue ==
    AllExtracted => \A c \in Copies : ex_out[c] = FirstUnqualifiedPresent

\* C10 witness: the three copies returned the value of a third entry, after a
\* qualified entry and an unqualified null entry.
C10_Witness ==
    /\ AllExtracted
    /\ Len(RecordedValues) >= 3
    /\ \E i, j \in DOMAIN RecordedValues :
           /\ RecordedValues[i].dimension # None /\ RecordedValues[i].value # None
           /\ RecordedValues[j].dimension = None /\ RecordedValues[j].value = None
    /\ RecordedValues[3].dimension = None
    /\ \A c \in Copies : ex_out[c] # None /\ ex_out[c] = RecordedValues[3].value

(***************************************************************************)
(* Properties of _compute_diagnosis (checked under SpecDiagnosis).         *)
(***************************************************************************)
DiagnosisReturned == dg_pc = "done"

\* The Q.TREND8 slope the response holds for a metric of the ticker: the
\* value of the earliest Q.TREND8 entry that has one, None when there is no
\* such entry.
TrendEntries(metric_id) ==
    LET companies == dg_data.data
        metrics   == IF dg_ticker \in DOMAIN companies
                     THEN companies[dg_ticker].metrics ELSE EmptyDict
        vs        == IF metric_id \in DOMAIN metrics
                     THEN metrics[metric_id].values ELSE <<>>
    IN  [i \in {j \in 1..Len(vs) : /\ vs[j].dimension = Some("Q.TREND8")
                                   /\ vs[j].value # None} |-> vs[i].value[1]]

TrendPresent(metric_id) == DOMAIN TrendEntries(metric_id) # {}

TrendOf(metric_id) ==
    LET es == TrendEntries(metric_id)
    IN  es[CHOOSE i \in DOMAIN es : \A j \in DOMAIN es : i <= j]

\* Thousandths: rising is above +0.003, falling is below -0.003.
TrendClass(t) ==
    IF t > 3 THEN "rising" ELSE IF t < -3 THEN "falling" ELSE "stable"

LabelOf(quality, valuation) ==
    CASE quality = "rising" /\ valuation = "falling" -> "OPPORTUNITY"
      [] quality = "falling" /\ valuation = "rising" -> "VALUE TRAP"
      [] quality = "rising" /\ valuation = "rising" -> "EARNING IT"
      [] quality = "falling" /\ valuation = "falling" -> "WATCH"
      [] OTHER -> "STABLE"

\* C11: when both trends are present, the label is the one the table gives
\* for the two trend classes (rising above +0.003, falling below -0.003,
\* stable otherwise, the thresholds themselves included), and it is one of
\* the five labels.
C11_DiagnosisTable ==
    (DiagnosisReturned /\ TrendPresent("roic") /\ TrendPresent("pe_ratio")) =>
        /\ dg_out.signal =
               LabelOf(TrendClass(TrendOf("roic")), TrendClass(TrendOf("pe_ratio")))
        /\ dg_out.signal \in {"OPPORTUNITY", "VALUE TRAP", "EARNING IT", "WATCH", "STABLE"}

\* a quality trend of exactly +0.003 with a valuation trend below -0.003 is
\* diagnosed STABLE; a slope one thousandth higher would make it OPPORTUNITY
C11_Witness ==
    /\ DiagnosisReturned
    /\ TrendPresent("roic") /\ TrendPresent("pe_ratio")
    /\ TrendOf("roic") = 3
    /\ TrendOf("pe_ratio") = -10
    /\ dg_out.signal = "STABLE"

\* C12: when the ROIC trend or the PE trend is absent, the diagnosis is
\* STABLE with the "insufficient trend data" text, whatever the other trend.
C12_AbsentTrendIsStable ==
    (DiagnosisReturned /\ (~TrendPresent("roic") \/ ~TrendPresent("pe_ratio"))) =>
        /\ dg_out.signal = "STABLE"
        /\ dg_out.text = "insufficient trend data"

\* the PE trend is missing while ROIC is clearly rising
C12_Witness ==
    /\ DiagnosisReturned
    /\ TrendPresent("roic") /\ TrendOf("roic") = 10
    /\ ~TrendPresent("pe_ratio")
    /\ dg_out = Diagnosis("STABLE", "insufficient trend data")

(***************************************************************************)
(* Properties of the display formatters (checked under SpecFormat).        *)
(***************************************************************************)
Formatted(f) == fm_value # None /\ f \notin fm_pc

DigitOf(c) == CHOOSE d \in 0..9 : DigitChar(d) = c

RECURSIVE NumberOf(_)
NumberOf(digits) ==
    IF digits = <<>> THEN 0
    ELSE 10 * NumberOf(SubSeq(digits, 1, Len(digits) - 1)) + DigitOf(digits[Len(digits)])

\* Reading a display string back: "%" and "," are dropped, the rest is read
\* as a signed decimal number, and a percentage is divided by 100.
Parsed(chars) ==
    LET pct   == chars[Len(chars)] = "%"
        kept  == SelectSeq(chars, LAMBDA c : c \notin {"%", ","})
        neg   == Head(kept) = "-"
        body  == IF neg THEN Tail(kept) ELSE kept
        dot   == IF \E i \in 1..Len(body) : body[i] = "."
                 THEN CHOOSE i \in 1..Len(body) : body[i] = "."
                 ELSE Len(body) + 1
        fracd == SubSeq(body, dot + 1, Len(body))
        whole == NumberOf(SubSeq(body, 1, dot - 1))
        frac  == NumberOf(fracd) * (Grid \div 10 ^ Len(fracd))
    IN  IF pct
        THEN Num(neg, whole \div 100, ((whole % 100) * Grid + frac) \div 100)
        ELSE Num(neg, whole, frac)

\* the distance, in 1/Grid, between two numbers of the same sign
Distance(x, y) ==
    LET d == (x.whole - y.whole) * Grid + (x.frac - y.frac)
    IN  IF d < 0 THEN -d ELSE d

RoundTripError(f) == Distance(Parsed(fm_out[f]), fm_value[1])

SignKept(f) == Parsed(fm_out[f]).neg = fm_value[1].neg

ShownAsPct(f) ==
    \/ f = "format_pct"
    \/ f = "format_value" /\ fm_metric.format_value = "roic"
    \/ f = "fmt_val" /\ fm_metric.fmt_val = "dividend_yield"

\* C13 as stated: the value read back is within one decimal place (0.1, or
\* 0.1 percentage points) of the original, whatever its magnitude.
C13_RoundTripOneDecimal ==
    \A f \in Formatters : Formatted(f) =>
        /\ SignKept(f)
        /\ IF ShownAsPct(f) THEN RoundTripError(f) * 1000 <= Grid
           ELSE RoundTripError(f) * 10 <= Grid

\* The display unit of a formatter for the value: the last digit shown.
DisplayUnit(f) ==
    IF ShownAsPct(f)
    THEN (IF f = "fmt_val" THEN Grid \div 10000 ELSE Grid \div 1000)
    ELSE IF fm_value[1].whole >= 1000 THEN Grid
    ELSE Grid \div 100

\* C13: the value read back is within half a display unit of the original,
\* where the display unit is 0.01 for a ratio below 1000 in magnitude, 1 for
\* a ratio of magnitude 1000 or more (shown without decimals), 0.1 percentage
\* points for format_pct and format_value, 0.01 percentage points for fmt_val.
C13_RoundTripHalfUnit ==
    \A f \in Formatters : Formatted(f) =>
        SignKept(f) /\ 2 * RoundTripError(f) <= DisplayUnit(f)

\* 1234567.49999 is displayed as "1,234,567" and read back 0.49999 off
C13_Witness ==
    /\ Formatted("format_ratio")
    /\ fm_value = Some(Num(FALSE, 1234567, 49999))
    /\ fm_out["format_ratio"] = <<"1", ",", "2", "3", "4", ",", "5", "6", "7">>
    /\ RoundTripError("format_ratio") = 49999

(***************************************************************************)
(* Properties of the scripts (checked under SpecRun).                      *)
(***************************************************************************)
Exited == pc = "exit"

ElementsOf(seq) == {seq[i] : i \in DOMAIN seq}

EntriesFor(alerts, ticker) ==
    Cardinality({i \in DOMAIN alerts : alerts[i].ticker = ticker})

\* the PE (in tenths) a dict of PE ratios assigns to a ticker, if any
AssignedPe(pe_ratios, ticker) ==
    {p.v[1] : p \in {q \in ElementsOf(pe_ratios) : q.k = ticker /\ q.v # None}}

\* one entry for the ticker if it has a PE strictly below the threshold,
\* none otherwise; the entry carries that PE
AlertedAsDue(alerts, pe_ratios, ticker, threshold) ==
    LET pes == AssignedPe(pe_ratios, ticker)
    IN  IF \E pe \in pes : pe < threshold
        THEN /\ EntriesFor(alerts, ticker) = 1
             /\ \A i \in DOMAIN alerts :
                    alerts[i].ticker = ticker => alerts[i].pe_ratio[1] \in pes
        ELSE EntriesFor(alerts, ticker) = 0

\* C14: the alert list holds exactly one entry for each watchlist ticker
\* whose PE is present and strictly below the threshold, and none for a
\* ticker whose PE is absent, equal to the threshold or above it.
C14_AlertsBelowThreshold ==
    /\ (script \in {"alert10", "alert01"} /\ Exited /\ exit_status = Some(0)) =>
           /\ \A t \in ElementsOf(env.WATCHLIST) :
                  AlertedAsDue(locals.alerts, locals.pe_ratios, t, 200)
           /\ \A i \in DOMAIN locals.alerts :
                  locals.alerts[i].ticker \in ElementsOf(env.WATCHLIST)
    /\ (script = "check_alerts" /\ pc = "done") =>
           /\ \A t \in {p.k : p \in ElementsOf(env.pe_ratios)} :
                  AlertedAsDue(locals.alerts, env.pe_ratios, t, env.threshold)
           /\ \A i \in DOMAIN locals.alerts :
                  locals.alerts[i].ticker \in {p.k : p \in ElementsOf(env.pe_ratios)}

\* PE 18.3 and 25.1 against the threshold 20: one alert, for the first ticker
C14_Witness ==
    /\ script = "alert10" /\ Exited
    /\ env.WATCHLIST = <<"AAPL", "MSFT">>
    /\ locals.pe_ratios = <<Pair("AAPL", Some(183)), Pair("MSFT", Some(251))>>
    /\ locals.alerts = <<Alert("AAPL", Some(183))>>

ApiCalls == SelectSeq(calls, LAMBDA c : c.to = "api")

FailedApiCall == \E i \in DOMAIN calls : calls[i].to = "api" /\ ~calls[i].ok

ReportProduced ==
    \E i \in DOMAIN printed :
        printed[i] \in {"REPORT.md", "RESULTS", "VERDICT", "PULSE", "json",
                        "ALERT(S) TRIGGERED", "No alerts triggered",
                        "Sync Status:", "Sync complete!"}

\* C15 as stated: once a request to the upstream API has failed (a non-2xx
\* response, a timeout), the run ends with a message and status 1, that
\* request is the last call it made, and no report is produced.
C15_FailureEndsRun ==
    (Exited /\ FailedApiCall) =>
        /\ exit_status = Some(1)
        /\ calls[Len(calls)].to = "api" /\ ~calls[Len(calls)].ok
        /\ ~ReportProduced
        /\ printed # <<>>


(***************************************************************************)
(* C16: configuration errors end the run before any request                *)
(***************************************************************************)
\* the configuration errors of a run: no API key in a script that requires
\* one, a wrong number of ticker arguments, a ticker compared with itself
ConfigError ==
    \/ script \in {"alert10", "sync"} /\ ~env.api_key
    \/ script = "showdown" /\ Len(env.args) \notin {0, 2}
    \/ script = "showdown" /\ Len(env.args) = 2 /\ upper(env.args[1]) = upper(env.args[2])
    \/ script = "pulse" /\ Len(env.args) > 1

\* C16 as stated: a run with a configuration error issues no HTTP request
\* and no datastore call, and ends with a message and exit status 1.
C16_ConfigErrorBeforeAnyCall ==
    ConfigError =>
        /\ calls = <<>>
        /\ Exited => exit_status = Some(1) /\ printed # <<>>


(***************************************************************************)
(* C17: a 200 response that lacks a requested ticker or metric             *)
(***************************************************************************)
\* every request of the run to the upstream API was answered with 200
ApiAnswered == ApiCalls # <<>> /\ ~FailedApiCall

Screens == script \in {"showdown", "pulse", "screener"}

\* the tickers the run asked the API for, and the companies it got back
Requested ==
    CASE script = "showdown" -> {locals.stock_a, locals.stock_b}
      [] script = "pulse"    -> {locals.ticker}
      [] script = "screener" -> 1..locals.tickers

Returned ==
    IF script = "screener" THEN locals.api_data
    ELSE Get(locals.api_data, "data", EmptyDict)

\* the ticker has a value for one of the metrics the script reads
Valued(t) ==
    CASE script = "showdown" -> extract_metric_showdown(locals.api_data, t, "pe_ratio") # None
      [] script = "pulse"    -> extract_metric_pulse(locals.api_data, t, "pe_ratio") # None
      [] script = "screener" ->
             \E i \in 1..Len(ALL_METRIC_IDS) :
                 extract_metric(locals.api_data, t, ALL_METRIC_IDS[i]) # None

TickerMissing == \E t \in Requested : t \notin DOMAIN Returned

\* the absent value of t is shown as N/A, or t is left out of the ranking
AbsentAsAbsent(t) ==
    IF script = "screener" THEN t \notin locals.results ELSE locals.shown[t] = NA

\* C17 as stated: a run whose requests were all answered with 200, with some
\* data, never ends with status 1 because a requested ticker or metric is
\* not in the response; the missing item is shown as N/A or left out.
C17_MissingItemNeverAnError ==
    (Exited /\ Screens /\ ApiAnswered /\ Returned # EmptyDict) =>
        /\ exit_status = Some(0)
        /\ \A t \in Requested : ~Valued(t) => AbsentAsAbsent(t)

\* C17, amended: a missing metric is never an error and is shown as N/A (or
\* keeps the ticker out of the ranking), but showdown and pulse end with
\* status 1 when a requested ticker is not in the response, and the screener
\* ends with status 1 when no returned ticker has a value to score.
C17_MissingTickerIsAnError ==
    (Exited /\ Screens /\ ApiAnswered) =>
        /\ exit_status \in {Some(0), Some(1)}
        /\ exit_status = Some(1) <=>
               IF script = "screener"
               THEN \A t \in DOMAIN Returned : ~Valued(t)
               ELSE Returned = EmptyDict \/ TickerMissing
        /\ exit_status = Some(0) =>
               /\ \A t \in Requested : ~Valued(t) => AbsentAsAbsent(t)
               /\ script = "screener" =>
                      locals.results = {t \in DOMAIN Returned : Valued(t)}

\* showdown got a 200 response holding one of its two tickers, and exited 1
C17_Witness ==
    /\ script = "showdown" /\ Exited /\ ApiAnswered
    /\ Returned # EmptyDict /\ TickerMissing
    /\ exit_status = Some(1)


(***************************************************************************)
(* C18: failures of the free market-data source                            *)
(***************************************************************************)
YfScripts == {"showdown", "alert01", "validate"}

YfCalls == SelectSeq(calls, LAMBDA c : c.to = "yfinance")

\* the tickers the script asks the source about, in order
YfTickers ==
    CASE script = "showdown" -> <<locals.stock_a, locals.stock_b>>
      [] script = "alert01"  -> env.WATCHLIST
      [] script = "validate" -> env.tickers

\* what the script has recorded from the source, and its absent record
YfRecords == IF script = "alert01" THEN locals.pe_ratios ELSE locals.yf_data

YfAbsent == IF script = "showdown" THEN YfContext("N/A", None) ELSE None

\* what the run holds from the upstream API
ApiResults ==
    CASE script = "showdown" -> locals.api_data
      [] script = "validate" -> locals.md_data
      [] OTHER               -> <<>>

YfFailure ==
    /\ script \in YfScripts
    /\ Len(calls') = Len(calls) + 1
    /\ calls'[Len(calls')].to = "yfinance"
    /\ ~calls'[Len(calls')].ok

YfRunEnds == script \in YfScripts /\ pc # "exit" /\ pc' = "exit" /\ YfCalls # <<>>

\* C18: a step in which the market-data source fails for a ticker leaves the
\* run going with its exit status untouched, records the absent value for
\* that ticker and leaves the upstream API's data as it was; and a run that
\* asked the source ends with status 0 after asking about every ticker, its
\* output computed from the upstream API's data.
C18_YFinanceFailureIsSwallowed ==
    [][/\ YfFailure =>
            /\ pc' = pc /\ exit_status' = exit_status
            /\ YfRecords' = Append(YfRecords, Pair(calls'[Len(calls')].what, YfAbsent))
            /\ ApiResults' = ApiResults
       /\ YfRunEnds =>
            /\ exit_status' = Some(0)
            /\ [i \in 1..Len(YfCalls) |-> YfCalls[i].what] = YfTickers
            /\ script = "showdown" => locals'.shown = ShowdownShown(locals)
            /\ script = "validate" =>
                   \A i \in 1..Len(env.tickers) :
                       locals'.results[i].metricduck
                           = dict_get(locals.md_data, env.tickers[i])]_vars

\* a run has ended in which the source failed for its first ticker and then
\* answered for its second
C18_Witness ==
    /\ script \in YfScripts /\ Exited
    /\ Len(YfCalls) >= 2
    /\ ~YfCalls[1].ok /\ YfCalls[2].ok
    /\ YfRecords[1].v = YfAbsent /\ YfRecords[2].v # YfAbsent


(***************************************************************************)
(* C19: sync_metrics rejects its arguments before doing anything           *)
(***************************************************************************)
NoSelector == env.tickers = None /\ env.top_n = None

BothSelectors == env.tickers # None /\ env.top_n # None

KeyUnset == ~env.api_key

InSyncMetrics == script = "sync" /\ pc = "sync_metrics"

\* C19: called with neither tickers nor top_n, with both, or without the API
\* key, sync_metrics raises ValueError in its first step, having sent no
\* request and made no datastore call, so that the three tables are as they
\* were; called with exactly one selector and the key, it raises no
\* ValueError there.
C19_ValueErrorBeforeRequest ==
    [][InSyncMetrics =>
          IF NoSelector \/ BothSelectors \/ KeyUnset
          THEN /\ locals'.raised = "ValueError"
               /\ calls' = calls
               /\ db' = db
          ELSE /\ locals'.raised # "ValueError"
               /\ Len(calls') = Len(calls) + 1
               /\ calls'[Len(calls')].to = "api"]_vars

\* sync_metrics has raised ValueError for a call that names both selectors,
\* with the key set and a datastore that holds an earlier sync
C19_Witness ==
    /\ script = "sync" /\ Exited
    /\ locals.raised = "ValueError"
    /\ BothSelectors /\ ~KeyUnset
    /\ db = EarlierDb
    /\ ApiCalls = <<>>


(***************************************************************************)
(* C20: the sync log is written last                                       *)
(***************************************************************************)
\* positions in calls of the successful calls of a kind
Done(to, what) ==
    {i \in DOMAIN calls : calls[i].to = to /\ calls[i].what = what /\ calls[i].ok}

FailedSyncStep ==
    \E i \in DOMAIN calls :
        /\ ~calls[i].ok
        /\ \/ calls[i].to = "api"
           \/ calls[i].to = "datastore" /\ calls[i].what \in {"upsert companies",
                                                                 "upsert metrics_latest"}

LogAppended == script = "sync" /\ db'.sync_log # db.sync_log

\* C20: a step that changes sync_log appends one record with status
\* "success"; before it the sync request was answered with 200, then the
\* company records of the response were upserted, then its metric records
\* (each upsert only when there is a record to write), so that the datastore
\* holds them all; and no record is appended after a failed request or a
\* failed upsert.
C20_LogAfterUpserts ==
    [][LogAppended =>
          /\ Len(db'.sync_log) = Len(db.sync_log) + 1
          /\ SubSeq(db'.sync_log, 1, Len(db.sync_log)) = db.sync_log
          /\ db'.sync_log[Len(db'.sync_log)].status = "success"
          /\ ~FailedSyncStep
          /\ Done("api", "200") # {}
          /\ LET data == locals.data.data
                 companies == {[ticker |-> data[i].ticker,
                                company_name |-> data[i].company_name] : i \in DOMAIN data}
                 metrics == UNION {{[ticker |-> data[i].ticker,
                                     metric_id |-> data[i].metrics[j].k,
                                     value |-> data[i].metrics[j].v]
                                        : j \in DOMAIN data[i].metrics} : i \in DOMAIN data}
             IN  /\ companies \subseteq db.companies
                 /\ metrics \subseteq db.metrics_latest
                 /\ companies # {} => Done("datastore", "upsert companies") # {}
                 /\ metrics # {} => Done("datastore", "upsert metrics_latest") # {}
                 /\ \A c \in Done("datastore", "upsert companies"),
                       m \in Done("datastore", "upsert metrics_latest") :
                           c < m
                 /\ \A a \in Done("api", "200"), c \in Done("datastore", "upsert companies") :
                           a < c
                 /\ \A a \in Done("api", "200"), m \in Done("datastore", "upsert metrics_latest") :
                           a < m]_vars

\* a delta run over an earlier sync has logged the sync of two companies and
\* their three metric values
C20_Witness ==
    /\ script = "sync" /\ Exited /\ exit_status = Some(0)
    /\ Len(db.sync_log) = 2
    /\ db.sync_log[2].companies_count = 2 /\ db.sync_log[2].metrics_count = 3
    /\ Done("datastore", "upsert companies") # {}
    /\ Done("datastore", "upsert metrics_latest") # {}


(***************************************************************************)
(* C21: the delta_since of a --delta run                                   *)
(***************************************************************************)
Requests == dl_history.requests

\* the synced_at instants of the successful rows of a sync_log
SuccessInstants(sync_log) ==
    {sync_log[i].synced_at.instant : i \in {j \in DOMAIN sync_log : sync_log[j].status = "success"}}

CarriesDeltaSince(r) == "delta_since" \in DOMAIN r.body

\* C21: the request of a --delta run carries as delta_since the latest
\* synced_at among the successful rows the log held; when the log held none,
\* the request carries no delta_since and all companies are returned; and a
\* later request never carries an earlier delta_since than a request before.
C21_DeltaSinceIsLastSync ==
    /\ \A i \in DOMAIN Requests :
           LET r  == Requests[i]
               ok == SuccessInstants(r.sync_log)
           IN  r.delta =>
                   IF ok = {}
                   THEN ~CarriesDeltaSince(r) /\ r.returned = Companies
                   ELSE /\ CarriesDeltaSince(r)
                        /\ r.body.delta_since.instant \in ok
                        /\ \A t \in ok : t <= r.body.delta_since.instant
    /\ \A i, j \in DOMAIN Requests :
           (i < j /\ CarriesDeltaSince(Requests[i]) /\ CarriesDeltaSince(Requests[j]))
               => Requests[i].body.delta_since.instant <= Requests[j].body.delta_since.instant

\* two --delta runs: the second one sent the synced_at of the first, which is
\* later than the synced_at the first one sent
C21_Witness ==
    /\ Len(Requests) = 2
    /\ Requests[1].delta /\ Requests[2].delta
    /\ CarriesDeltaSince(Requests[1]) /\ CarriesDeltaSince(Requests[2])
    /\ Requests[1].body.delta_since.instant < Requests[2].body.delta_since.instant
    /\ Len(Requests[2].sync_log) = 2


(***************************************************************************)
(* C25: updates made upstream while a sync is under way                    *)
(***************************************************************************)
Syncs == dl_history.syncs

\* the company's data in the datastore is older than the upstream data
Stale(c) == c \notin DOMAIN dl_db.companies \/ dl_db.companies[c] < dl_upstream[c]

\* a --delta run started now would ask for the updates since this instant
NextDeltaSince ==
    LET ok == SuccessInstants(dl_db.sync_log)
    IN  IF ok = {} THEN 0 ELSE CHOOSE t \in ok : \A u \in ok : u <= t

\* C25 as stated: the synced_at logged for a sync is never later than the
\* instant at which the API produced that sync's response; hence, between
\* runs that followed a logged sync, every company whose upstream data is
\* newer than the datastore's is one the next --delta run will be sent.
C25_NoUpdateLost ==
    /\ \A i \in DOMAIN Syncs : Syncs[i].synced_at <= Syncs[i].produced
    /\ (dl_pc = "idle" /\ Syncs # <<>>) =>
           \A c \in Companies : Stale(c) => dl_upstream[c] >= NextDeltaSince

\* ---------------------------------------------------------------------------
\* C22
\* ---------------------------------------------------------------------------

DryRunScripts == {"pulse", "screener"}

\* a dry run proper: --dry-run on a command line the script accepts, that does
\* not ask for the usage text
IsDryRun ==
    /\ script \in DryRunScripts
    /\ env.dry_run
    /\ script = "pulse" => Len(env.args) \in {0, 1}
    /\ script = "screener" => ~env.help

EstimatedCredits ==
    IF script = "pulse" THEN 40 ELSE TickerCount(env) * 5

RECURSIVE Carried(_)
Carried(requests) ==
    IF requests = <<>> THEN 0
    ELSE (Head(requests).hi - Head(requests).lo + 1) + Carried(Tail(requests))

\* C23: without an API key a screener run passes at most GUEST_MAX_TICKERS
\* tickers to fetch_metrics and reports at most that many as screened, for
\* every combination of --count and --tickers.
C23_GuestScreensAtMostTen ==
    (script = "screener" /\ ~env.api_key) =>
        /\ locals.tickers <= GUEST_MAX_TICKERS
        /\ Carried(locals.requests) <= GUEST_MAX_TICKERS
        /\ locals.total_screened <= GUEST_MAX_TICKERS

\* ---------------------------------------------------------------------------
\* C24
\* ---------------------------------------------------------------------------

RECURSIVE Flatten(_)
Flatten(batches) ==
    IF batches = <<>> THEN <<>> ELSE Head(batches) \o Flatten(Tail(batches))

\* validate.py: the batches sent so far are the ticker list cut in order,
\* none longer than the batch size
ValidateBatched ==
    LET sent == Flatten(locals.requests)
    IN  /\ Len(sent) <= Len(env.tickers)
        /\ sent = SubSeq(env.tickers, 1, Len(sent))
        /\ \A k \in DOMAIN locals.requests :
               /\ Len(locals.requests[k]) >= 1
               /\ Len(locals.requests[k]) <= locals.batch_size
               /\ ~env.api_key => Len(locals.requests[k]) <= 4

ValidateAllSucceeded == script = "validate" /\ locals.i >= Len(env.tickers)

\* screener.py: the batches sent so far cover the positions 1, 2, ... in order
\* without gap or overlap, none longer than 100
ScreenerBatched ==
    \A k \in DOMAIN locals.requests :
        LET r == locals.requests[k]
        IN  /\ r.lo = (IF k = 1 THEN 1 ELSE locals.requests[k - 1].hi + 1)
            /\ r.lo <= r.hi
            /\ r.hi - r.lo + 1 <= 100
            /\ r.hi <= locals.tickers

ScreenerAllSucceeded ==
    /\ script = "screener" /\ locals.tickers > 0
    /\ locals.i >= locals.tickers

\* C24: fetch_metrics sends the tickers in consecutive batches of at most 100,
\* every position in exactly one request and in order, and after the last
\* successful batch the merged result holds the data of every ticker any batch
\* returned; fetch_metricduck does the same with batches of at most 4 for a
\* guest and records an entry for every requested ticker.
C24_BatchesPartitionTheTickers ==
    /\ script = "validate" =>
        /\ ValidateBatched
        /\ ValidateAllSucceeded =>
            /\ Flatten(locals.requests) = env.tickers
            /\ \A i \in DOMAIN env.tickers :
                   \E j \in DOMAIN locals.md_data : locals.md_data[j].k = env.tickers[i]
    /\ script = "screener" =>
        /\ ScreenerBatched
        /\ ScreenerAllSucceeded =>
            /\ locals.requests[Len(locals.requests)].hi = locals.tickers
            /\ \A k \in DOMAIN locals.requests :
                   \A t \in DOMAIN locals.requests[k].data :
                       /\ t \in DOMAIN locals.api_data
                       /\ locals.api_data[t] = locals.requests[k].data[t]

C24_Witness ==
    /\ ValidateAllSucceeded
    /\ ~env.api_key
    /\ Len(locals.requests) = 2
    /\ Len(env.tickers) > GUEST_BATCH_SIZE

\* the screener's case of C24: 101 tickers, two successful requests
C24_ScreenerTwoBatches ==
    /\ ScreenerAllSucceeded
    /\ Len(locals.requests) = 2
    /\ locals.requests[2].data # EmptyDict

\* ---------------------------------------------------------------------------
\* C26
\* ---------------------------------------------------------------------------

SyncRequestSent ==
    /\ script = "sync"
    /\ locals.request_body # EmptyDict

Selectors == DOMAIN locals.request_body \cap {"tickers", "top_n"}

\* C26: every request that sync_metrics sends carries exactly one company
\* selector, "tickers" or "top_n", whatever arguments passed the validation
\* (top_n = 0 included).
C26_ExactlyOneSelector ==
    SyncRequestSent => Cardinality(Selectors) = 1

\* ---------------------------------------------------------------------------
\* C27
\* ---------------------------------------------------------------------------

\* the reported scores are numbers of tenths
ReportedMin == SIGNAL_MIN * 10

\* C27: in every record of score_stocks the signal agrees with the rounded
\* scores of the same record: QUALITY or BALANCED exactly when the reported
\* quality score is at least 70, VALUE or BALANCED exactly when the reported
\* value score is at least 70.
C27_SignalAgreesWithReportedScores ==
    \A i \in DOMAIN results :
        LET r == results[i]
        IN  /\ r.signal \in {"QUALITY", "BALANCED"} <=> r.scores.quality >= ReportedMin
            /\ r.signal \in {"VALUE", "BALANCED"} <=> r.scores.value >= ReportedMin

\* ---------------------------------------------------------------------------
\* C30
\* ---------------------------------------------------------------------------

\* C30: compute_percentile_ranks is strictly monotone in the preferred
\* direction: of two valued entities, the one with the strictly better value
\* gets the strictly greater percentile, whatever their order in the input and
\* whatever other entities are present.
C30_StrictlyMonotone ==
    RankReturned =>
        \A t \in Present : \A u \in Present :
            Better(ValueOf(t), ValueOf(u)) => ranks[t] > ranks[u]

\* the better value comes later in the input, among entities that tie with
\* each of the two and an entity without a value, in the direction "lower"
C30_Witness ==
    /\ RankReturned
    /\ direction = "lower"
    /\ \E t \in Present : \E u \in Present :
        /\ t > u
        /\ Better(ValueOf(t), ValueOf(u))
        /\ \E w \in Present \ {t, u} : ValueOf(w) = ValueOf(u)
        /\ Present # 1..Len(values)

\* ---------------------------------------------------------------------------
\* C28
\* ---------------------------------------------------------------------------

Compared ==
    /\ script \in {"validate", "compare"}
    /\ locals.results # <<>>

\* the verdict the documented thresholds give to a reported pct_diff (tenths)
VerdictOfReported(reported) ==
    IF reported = None THEN "N/A"
    ELSE IF reported[1] < THRESHOLD_OK * 10 THEN "OK"
    ELSE IF reported[1] < THRESHOLD_INVESTIGATE * 10 THEN "INVESTIGATE"
    ELSE "CRITICAL"

\* C28: in every record of compare the verdict agrees with the pct_diff of the
\* same record: OK exactly below 5, INVESTIGATE from 5 to below 15, CRITICAL
\* from 15 on, and N/A exactly when pct_diff is absent, which is when either
\* value is absent or the yfinance value is zero.
C28_VerdictAgreesWithReportedDiff ==
    Compared =>
        \A i \in DOMAIN locals.results :
            LET r == locals.results[i]
            IN  /\ r.verdict = VerdictOfReported(r.pct_diff)
                /\ r.pct_diff = None <=>
                       (r.metricduck = None \/ r.yfinance = None \/ r.yfinance = Some(0))

\* ---------------------------------------------------------------------------
\* C29
\* ---------------------------------------------------------------------------

PanelsShown == script = "panels" /\ pc = "done"

PanelNames == {"valuation", "quality"}

\* the ticker a verdict line of the table names, in the words of the JSON
PrintedWinner(panel) ==
    IF locals.table.verdict[panel] = "Tied" THEN "tie" ELSE locals.table.verdict[panel]

JsonWinner(panel) ==
    IF panel = "valuation" THEN locals.json.verdict.valuation_winner
    ELSE locals.json.verdict.quality_winner

\* C29: on the same payload and ticker pair the table mode and the --json mode
\* agree: display_panel returns the win counts that build_comparison_data
\* reports as the panel's scores, the verdict names the ticker (or the tie) of
\* valuation_winner / quality_winner, a metric present for one ticker only is
\* won by that ticker, and a metric absent for both is a tie counted for
\* neither.
C29_TableAndJsonAgree ==
    PanelsShown =>
        \A panel \in PanelNames :
            LET table == locals.table[panel]
                json  == locals.json.panels[panel]
            IN  /\ table.returned = <<json.score[env.stock_a], json.score[env.stock_b]>>
                /\ PrintedWinner(panel) = JsonWinner(panel)
                /\ table.summary[1] = locals.table.verdict[panel]
                /\ \A i \in DOMAIN json.metrics :
                       LET m == json.metrics[i]
                       IN  /\ (m.a # None /\ m.b = None) =>
                               /\ m.winner = env.stock_a
                               /\ table.winner_display[i] = <<"<-", env.stock_a>>
                           /\ (m.a = None /\ m.b # None) =>
                               /\ m.winner = env.stock_b
                               /\ table.winner_display[i] = <<env.stock_b, "->">>
                           /\ (m.a = None /\ m.b = None) =>
                               /\ m.winner = "tie"
                               /\ table.winner_display[i] = <<"Tie">>
                /\ table.returned[1]
                       = Cardinality({i \in DOMAIN json.metrics :
                                         json.metrics[i].winner = env.stock_a})
                /\ table.returned[2]
                       = Cardinality({i \in DOMAIN json.metrics :
                                         json.metrics[i].winner = env.stock_b})

\* one ticker wins the valuation panel on metrics the other lacks, the other
\* ticker wins the quality panel, and a metric is absent for both
C29_Witness ==
    /\ PanelsShown
    /\ locals.json.verdict.valuation_winner = "NVDA"
    /\ locals.json.verdict.quality_winner = "AMD"
    /\ \E i \in DOMAIN locals.json.panels.valuation.metrics :
           LET m == locals.json.panels.valuation.metrics[i]
           IN  m.a # None /\ m.b = None
    /\ \E i \in DOMAIN locals.json.panels.quality.metrics :
           LET m == locals.json.panels.quality.metrics[i]
           IN  m.a = None /\ m.b = None

====
